---- MODULE Spec2Model ----
(***************************************************************************)
(* Token codec and verifier of backend/app/core/security.py, with the      *)
(* HTTP-facing dependency of backend/app/core/dependencies.py.             *)
(*                                                                         *)
(* Text is a sequence of character codes (Unicode code points); bytes are  *)
(* a sequence of 0..255.  A token is one flat string; its segments are     *)
(* what str.split(".") yields.                                             *)
(***************************************************************************)
EXTENDS Integers, Sequences, FiniteSets, TLC

(***************************************************************************)
(* Characters                                                              *)
(***************************************************************************)
DOT == 46
PAD == 61
QUOTE == 34
BACKSLASH == 92

\* "abc" as codes, for the few literals of the code
S_alg == <<97, 108, 103>>
S_typ == <<116, 121, 112>>
S_JWT == <<74, 87, 84>>
S_HS256 == <<72, 83, 50, 53, 54>>
S_RS256 == <<82, 83, 50, 53, 54>>
S_sub == <<115, 117, 98>>
S_role == <<114, 111, 108, 101>>
S_type == <<116, 121, 112, 101>>
S_iat == <<105, 97, 116>>
S_exp == <<101, 120, 112>>
S_access == <<97, 99, 99, 101, 115, 115>>
S_refresh == <<114, 101, 102, 114, 101, 115, 104>>

IsDigit(c) == c >= 48 /\ c <= 57

(***************************************************************************)
(* base64url, as base64.urlsafe_b64encode / urlsafe_b64decode compute it   *)
(***************************************************************************)
\* the i-th character of the URL-safe alphabet: A-Z a-z 0-9 - _
B64Char(i) ==
    IF i < 26 THEN 65 + i
    ELSE IF i < 52 THEN 71 + i
    ELSE IF i < 62 THEN i - 4
    ELSE IF i = 62 THEN 45 ELSE 95

\* binascii's table after the URL-safe translation: '+' and '-' are 62,
\* '/' and '_' are 63, every other character is no symbol (64)
B64Value(c) ==
    IF c >= 65 /\ c <= 90 THEN c - 65
    ELSE IF c >= 97 /\ c <= 122 THEN c - 71
    ELSE IF c >= 48 /\ c <= 57 THEN c + 4
    ELSE IF c = 43 \/ c = 45 THEN 62
    ELSE IF c = 47 \/ c = 95 THEN 63
    ELSE 64

\* b64encode: each group of three bytes gives four characters, the last
\* group padded with '='
B64EncodePadded(data) ==
    LET n == Len(data)
        byte(j) == IF j <= n THEN data[j] ELSE 0
        quad(g, r) ==
            LET b0 == byte(3 * g + 1)  b1 == byte(3 * g + 2)  b2 == byte(3 * g + 3) IN
            IF r = 0 THEN B64Char(b0 \div 4)
            ELSE IF r = 1 THEN B64Char((b0 % 4) * 16 + (b1 \div 16))
            ELSE IF r = 2
                 THEN (IF 3 * g + 2 <= n THEN B64Char((b1 % 16) * 4 + (b2 \div 64))
                       ELSE PAD)
            ELSE (IF 3 * g + 3 <= n THEN B64Char(b2 % 64) ELSE PAD)
    IN [k \in 1..(4 * ((n + 2) \div 3)) |-> quad((k - 1) \div 4, (k - 1) % 4)]

RECURSIVE RStripPad(_)
RStripPad(s) ==
    IF Len(s) > 0 /\ s[Len(s)] = PAD THEN RStripPad(SubSeq(s, 1, Len(s) - 1)) ELSE s

\* a faulty _urlsafe_b64encode that keeps the padding (property C20 must
\* tell it from the real one)
urlsafe_b64encode_padded(data) == B64EncodePadded(data)

urlsafe_b64encode(data) == RStripPad(B64EncodePadded(data))

RECURSIVE Repeat(_, _)
Repeat(c, n) == IF n <= 0 THEN <<>> ELSE <<c>> \o Repeat(c, n - 1)

\* binascii.a2b_base64 in its default (non-strict) mode: characters outside
\* the alphabet are skipped; a '=' met with q >= 2 symbols of the current
\* quad read, as the (4-q)-th '=' since the last symbol, ends the scan;
\* otherwise symbols left over at the end are an error (binascii.Error).
a2b_base64(s) ==
    LET IsSym(c) == B64Value(c) < 64
        SymsBefore(i) == Cardinality({j \in 1..(i - 1) : IsSym(s[j])})
        LastSymBefore(i) ==
            LET S == {j \in 1..(i - 1) : IsSym(s[j])} IN
            IF S = {} THEN 0 ELSE CHOOSE j \in S : \A k \in S : k <= j
        PadsUpTo(i) == Cardinality({j \in (LastSymBefore(i) + 1)..i : s[j] = PAD})
        Stops == {i \in 1..Len(s) : /\ s[i] = PAD
                                     /\ SymsBefore(i) % 4 >= 2
                                     /\ (SymsBefore(i) % 4) + PadsUpTo(i) >= 4}
        end == IF Stops = {} THEN Len(s)
               ELSE (CHOOSE i \in Stops : \A k \in Stops : i <= k) - 1
        syms == SelectSeq(SubSeq(s, 1, end), IsSym)
        m == Len(syms)
        v(j) == B64Value(syms[j])
        byte(g, r) ==
            IF r = 0 THEN v(4 * g + 1) * 4 + (v(4 * g + 2) \div 16)
            ELSE IF r = 1 THEN (v(4 * g + 2) % 16) * 16 + (v(4 * g + 3) \div 4)
            ELSE (v(4 * g + 3) % 4) * 64 + v(4 * g + 4)
        nbytes == 3 * (m \div 4) + (IF m % 4 >= 2 THEN (m % 4) - 1 ELSE 0)
    IN [ok |-> Stops # {} \/ m % 4 = 0,
        v |-> [k \in 1..nbytes |-> byte((k - 1) \div 3, (k - 1) % 3)]]

IsAscii(s) == \A i \in 1..Len(s) : s[i] < 128

\* _urlsafe_b64decode: exc is "" on success, else the exception's class
urlsafe_b64decode(data) ==
    LET padding == Repeat(PAD, (-Len(data)) % 4)
        r == a2b_base64(data \o padding)
    IN IF ~IsAscii(data) THEN [exc |-> "ValueError", v |-> <<>>]
       ELSE IF ~r.ok THEN [exc |-> "binascii.Error", v |-> <<>>]
       ELSE [exc |-> "", v |-> r.v]

(***************************************************************************)
(* JSON values: [t |-> type, v |-> value].  A str holds its code points, a *)
(* dict the sequence of its [k, val] pairs in insertion order.             *)
(***************************************************************************)
JNone == [t |-> "null", v |-> 0]
JStr(s) == [t |-> "str", v |-> s]
JInt(n) == [t |-> "int", v |-> n]
JBool(b) == [t |-> "bool", v |-> b]
JList(items) == [t |-> "list", v |-> items]
JDict(pairs) == [t |-> "dict", v |-> pairs]
Pair(k, val) == [k |-> k, val |-> val]

\* dict.get(key): the value stored under key, None when absent
RECURSIVE DictGetFrom(_, _, _)
DictGetFrom(pairs, key, i) ==
    IF i = 0 THEN JNone
    ELSE IF pairs[i].k = key THEN pairs[i].val
    ELSE DictGetFrom(pairs, key, i - 1)

DictGet(d, key) == DictGetFrom(d.v, key, Len(d.v))

\* dict[key] = val as the JSON decoder builds a dict: a repeated key keeps
\* its first position and takes the last value
RECURSIVE DictSetFrom(_, _, _, _)
DictSetFrom(pairs, key, val, i) ==
    IF i > Len(pairs) THEN Append(pairs, Pair(key, val))
    ELSE IF pairs[i].k = key
         THEN [pairs EXCEPT ![i] = Pair(key, val)]
         ELSE DictSetFrom(pairs, key, val, i + 1)

DictSet(pairs, key, val) == DictSetFrom(pairs, key, val, 1)

(***************************************************************************)
(* json.dumps(obj, separators=(",", ":")) with ensure_ascii (the default)  *)
(***************************************************************************)
HexDigit(d) == IF d < 10 THEN 48 + d ELSE 87 + d

\* \uXXXX of a 16-bit unit, lower-case hex
EscapeUnit(u) ==
    <<BACKSLASH, 117, HexDigit(u \div 4096), HexDigit((u \div 256) % 16),
      HexDigit((u \div 16) % 16), HexDigit(u % 16)>>

EscapeChar(c) ==
    IF c = QUOTE THEN <<BACKSLASH, QUOTE>>
    ELSE IF c = BACKSLASH THEN <<BACKSLASH, BACKSLASH>>
    ELSE IF c = 10 THEN <<BACKSLASH, 110>>
    ELSE IF c = 13 THEN <<BACKSLASH, 114>>
    ELSE IF c = 9 THEN <<BACKSLASH, 116>>
    ELSE IF c = 12 THEN <<BACKSLASH, 102>>
    ELSE IF c = 8 THEN <<BACKSLASH, 98>>
    ELSE IF c >= 32 /\ c <= 126 THEN <<c>>
    ELSE IF c < 65536 THEN EscapeUnit(c)
    ELSE EscapeUnit(55296 + ((c - 65536) \div 1024))
         \o EscapeUnit(56320 + ((c - 65536) % 1024))

RECURSIVE EscapeFrom(_, _)
EscapeFrom(s, i) ==
    IF i > Len(s) THEN <<>> ELSE EscapeChar(s[i]) \o EscapeFrom(s, i + 1)

DumpsStr(s) == <<QUOTE>> \o EscapeFrom(s, 1) \o <<QUOTE>>

RECURSIVE Digits(_)
Digits(n) == IF n < 10 THEN <<48 + n>> ELSE Append(Digits(n \div 10), 48 + (n % 10))

DumpsInt(n) == IF n < 0 THEN <<45>> \o Digits(-n) ELSE Digits(n)

RECURSIVE DumpsValue(_)
RECURSIVE DumpsItems(_, _)
RECURSIVE DumpsPairs(_, _)
DumpsValue(x) ==
    IF x.t = "str" THEN DumpsStr(x.v)
    ELSE IF x.t = "int" THEN DumpsInt(x.v)
    ELSE IF x.t = "null" THEN <<110, 117, 108, 108>>
    ELSE IF x.t = "bool"
         THEN (IF x.v THEN <<116, 114, 117, 101>> ELSE <<102, 97, 108, 115, 101>>)
    ELSE IF x.t = "list" THEN <<91>> \o DumpsItems(x.v, 1) \o <<93>>
    ELSE <<123>> \o DumpsPairs(x.v, 1) \o <<125>>

DumpsItems(items, i) ==
    IF i > Len(items) THEN <<>>
    ELSE (IF i > 1 THEN <<44>> ELSE <<>>) \o DumpsValue(items[i])
         \o DumpsItems(items, i + 1)

DumpsPairs(pairs, i) ==
    IF i > Len(pairs) THEN <<>>
    ELSE (IF i > 1 THEN <<44>> ELSE <<>>) \o DumpsStr(pairs[i].k) \o <<58>>
         \o DumpsValue(pairs[i].val) \o DumpsPairs(pairs, i + 1)

json_dumps(obj) == DumpsValue(obj)

\* sort_keys=True: the items of a dict ordered by key (code-point order)
RECURSIVE StrLessFrom(_, _, _)
StrLessFrom(a, b, i) ==
    IF i > Len(a) THEN i <= Len(b)
    ELSE IF i > Len(b) THEN FALSE
    ELSE IF a[i] # b[i] THEN a[i] < b[i]
    ELSE StrLessFrom(a, b, i + 1)

StrLess(a, b) == StrLessFrom(a, b, 1)

RECURSIVE InsertPair(_, _)
InsertPair(sorted, p) ==
    IF sorted = <<>> THEN <<p>>
    ELSE IF StrLess(p.k, sorted[1].k) THEN <<p>> \o sorted
    ELSE <<sorted[1]>> \o InsertPair(Tail(sorted), p)

RECURSIVE SortPairs(_, _)
SortPairs(pairs, i) ==
    IF i = 0 THEN <<>> ELSE InsertPair(SortPairs(pairs, i - 1), pairs[i])

json_dumps_sorted(obj) == DumpsValue(JDict(SortPairs(obj.v, Len(obj.v))))

(***************************************************************************)
(* json.loads(bytes): detect_encoding, bytes.decode(.., "surrogatepass"),  *)
(* then the decoder.  Inputs json treats as UTF-16/32, and numbers that    *)
(* are not plain integers of at most nine digits, are outside this model:  *)
(* they are reported as "unmodelled", never as a parse result.             *)
(***************************************************************************)
detect_encoding(b) ==
    LET n == Len(b) IN
    IF n >= 2 /\ ((b[1] = 254 /\ b[2] = 255) \/ (b[1] = 255 /\ b[2] = 254))
    THEN "other"
    ELSE IF n >= 4 /\ b[1] = 0 /\ b[2] = 0 /\ b[3] = 254 /\ b[4] = 255 THEN "other"
    ELSE IF n >= 3 /\ b[1] = 239 /\ b[2] = 187 /\ b[3] = 191 THEN "utf-8-sig"
    ELSE IF n >= 4 /\ (b[1] = 0 \/ b[2] = 0) THEN "other"
    ELSE IF n = 2 /\ (b[1] = 0 \/ b[2] = 0) THEN "other"
    ELSE "utf-8"

IsCont(b) == b >= 128 /\ b <= 191

RECURSIVE Utf8From(_, _, _)
Utf8From(b, i, out) ==
    IF i > Len(b) THEN [ok |-> TRUE, v |-> out]
    ELSE LET b0 == b[i]  n == Len(b) - i IN
         IF b0 < 128 THEN Utf8From(b, i + 1, Append(out, b0))
         ELSE IF b0 >= 194 /\ b0 <= 223 /\ n >= 1 /\ IsCont(b[i + 1])
         THEN Utf8From(b, i + 2, Append(out, (b0 - 192) * 64 + (b[i + 1] - 128)))
         ELSE IF b0 >= 224 /\ b0 <= 239 /\ n >= 2 /\ IsCont(b[i + 1])
                 /\ IsCont(b[i + 2]) /\ (b0 # 224 \/ b[i + 1] >= 160)
         THEN Utf8From(b, i + 3, Append(out, (b0 - 224) * 4096
                                  + (b[i + 1] - 128) * 64 + (b[i + 2] - 128)))
         ELSE IF b0 >= 240 /\ b0 <= 244 /\ n >= 3 /\ IsCont(b[i + 1])
                 /\ IsCont(b[i + 2]) /\ IsCont(b[i + 3])
                 /\ (b0 # 240 \/ b[i + 1] >= 144) /\ (b0 # 244 \/ b[i + 1] <= 143)
         THEN Utf8From(b, i + 4, Append(out, (b0 - 240) * 262144
                                  + (b[i + 1] - 128) * 4096
                                  + (b[i + 2] - 128) * 64 + (b[i + 3] - 128)))
         ELSE [ok |-> FALSE, v |-> <<>>]

\* results of the scanner: st is "ok", "err" (JSONDecodeError) or "unmodelled"
POk(val, next) == [st |-> "ok", val |-> val, next |-> next]
PErr == [st |-> "err", val |-> JNone, next |-> 0]
PUnmodelled == [st |-> "unmodelled", val |-> JNone, next |-> 0]

IsWs(c) == c = 32 \/ c = 9 \/ c = 10 \/ c = 13

RECURSIVE SkipWs(_, _)
SkipWs(s, i) == IF i <= Len(s) /\ IsWs(s[i]) THEN SkipWs(s, i + 1) ELSE i

HexValue(c) ==
    IF IsDigit(c) THEN c - 48
    ELSE IF c >= 97 /\ c <= 102 THEN c - 87
    ELSE IF c >= 65 /\ c <= 70 THEN c - 55
    ELSE -1

\* the four hex digits at s[i..i+3], -1 when they are not four hex digits
Hex4(s, i) ==
    IF i + 3 > Len(s) THEN -1
    ELSE IF \E j \in 0..3 : HexValue(s[i + j]) < 0 THEN -1
    ELSE HexValue(s[i]) * 4096 + HexValue(s[i + 1]) * 256
         + HexValue(s[i + 2]) * 16 + HexValue(s[i + 3])

Unescape(e) ==
    IF e = 98 THEN 8 ELSE IF e = 102 THEN 12 ELSE IF e = 110 THEN 10
    ELSE IF e = 114 THEN 13 ELSE IF e = 116 THEN 9
    ELSE IF e = QUOTE \/ e = BACKSLASH \/ e = 47 THEN e ELSE -1

\* scanstring (strict), from position i inside the string: the run of
\* plain characters up to the next quote, backslash or control character is
\* taken whole, then the escape (if any) is decoded
RECURSIVE ScanString(_, _, _)
ScanString(s, i, acc) ==
    LET Special == {j \in i..Len(s) : s[j] = QUOTE \/ s[j] = BACKSLASH \/ s[j] < 32} IN
    IF Special = {} THEN PErr
    ELSE LET p == CHOOSE j \in Special : \A k \in Special : j <= k
             c == s[p]
             got == acc \o SubSeq(s, i, p - 1)
         IN IF c = QUOTE THEN POk(JStr(got), p + 1)
            ELSE IF c < 32 THEN PErr
            ELSE IF p + 1 > Len(s) THEN PErr
            ELSE IF s[p + 1] # 117
                 THEN (IF Unescape(s[p + 1]) < 0 THEN PErr
                       ELSE ScanString(s, p + 2, Append(got, Unescape(s[p + 1]))))
            ELSE LET u == Hex4(s, p + 2)
                     lo == IF p + 7 <= Len(s) /\ s[p + 6] = BACKSLASH /\ s[p + 7] = 117
                           THEN Hex4(s, p + 8) ELSE -1
                 IN IF u < 0 THEN PErr
                    ELSE IF u >= 55296 /\ u <= 56319 /\ lo >= 56320 /\ lo <= 57343
                    THEN ScanString(s, p + 12,
                             Append(got, 65536 + (u - 55296) * 1024 + (lo - 56320)))
                    ELSE ScanString(s, p + 6, Append(got, u))

RECURSIVE ScanDigits(_, _, _, _)
ScanDigits(s, i, n, count) ==
    IF i <= Len(s) /\ IsDigit(s[i])
    THEN (IF count >= 9 THEN [n |-> 0, next |-> 0]
          ELSE ScanDigits(s, i + 1, n * 10 + (s[i] - 48), count + 1))
    ELSE [n |-> n, next |-> i]

HasPrefixAt(s, i, lit) ==
    i + Len(lit) - 1 <= Len(s) /\ SubSeq(s, i, i + Len(lit) - 1) = lit

\* NUMBER_RE: -?(0|[1-9]\d*)(\.\d+)?([eE][-+]?\d+)?; i is at '-' or a digit
ScanNumber(s, i) ==
    LET neg == s[i] = 45
        j == IF neg THEN i + 1 ELSE i
    IN IF j > Len(s) \/ ~IsDigit(s[j])
       THEN (IF neg /\ HasPrefixAt(s, j, <<73, 110, 102, 105, 110, 105, 116, 121>>)
             THEN PUnmodelled ELSE PErr)
       ELSE LET d == IF s[j] = 48 THEN [n |-> 0, next |-> j + 1]
                     ELSE ScanDigits(s, j, 0, 0)
                k == d.next
                frac == k + 1 <= Len(s) /\ s[k] = DOT /\ IsDigit(s[k + 1])
                expo == k + 1 <= Len(s) /\ (s[k] = 101 \/ s[k] = 69)
                        /\ (IsDigit(s[k + 1])
                            \/ (k + 2 <= Len(s) /\ (s[k + 1] = 43 \/ s[k + 1] = 45)
                                /\ IsDigit(s[k + 2])))
            IN IF k = 0 \/ frac \/ expo THEN PUnmodelled
               ELSE POk(JInt(IF neg THEN -d.n ELSE d.n), k)

RECURSIVE ScanValue(_, _)
RECURSIVE ScanArray(_, _, _)
RECURSIVE ScanObject(_, _, _)
\* scan_once: the value starting exactly at s[i]
ScanValue(s, i) ==
    IF i > Len(s) THEN PErr
    ELSE LET c == s[i] IN
         IF c = QUOTE THEN ScanString(s, i + 1, <<>>)
         ELSE IF c = 123
         THEN LET j == SkipWs(s, i + 1) IN
              IF j <= Len(s) /\ s[j] = 125 THEN POk(JDict(<<>>), j + 1)
              ELSE ScanObject(s, j, <<>>)
         ELSE IF c = 91
         THEN LET j == SkipWs(s, i + 1) IN
              IF j <= Len(s) /\ s[j] = 93 THEN POk(JList(<<>>), j + 1)
              ELSE ScanArray(s, j, <<>>)
         ELSE IF HasPrefixAt(s, i, <<110, 117, 108, 108>>) THEN POk(JNone, i + 4)
         ELSE IF HasPrefixAt(s, i, <<116, 114, 117, 101>>) THEN POk(JBool(TRUE), i + 4)
         ELSE IF HasPrefixAt(s, i, <<102, 97, 108, 115, 101>>)
         THEN POk(JBool(FALSE), i + 5)
         ELSE IF c = 45 \/ IsDigit(c) THEN ScanNumber(s, i)
         ELSE IF HasPrefixAt(s, i, <<78, 97, 78>>)
                 \/ HasPrefixAt(s, i, <<73, 110, 102, 105, 110, 105, 116, 121>>)
         THEN PUnmodelled
         ELSE PErr

\* JSONArray: i is at the next element
ScanArray(s, i, items) ==
    LET r == ScanValue(s, i) IN
    IF r.st # "ok" THEN r
    ELSE LET j == SkipWs(s, r.next)  got == Append(items, r.val) IN
         IF j > Len(s) THEN PErr
         ELSE IF s[j] = 93 THEN POk(JList(got), j + 1)
         ELSE IF s[j] # 44 THEN PErr
         ELSE ScanArray(s, SkipWs(s, j + 1), got)

\* JSONObject: i is at the next key's opening quote
ScanObject(s, i, pairs) ==
    IF i > Len(s) \/ s[i] # QUOTE THEN PErr
    ELSE LET k == ScanString(s, i + 1, <<>>) IN
         IF k.st # "ok" THEN k
         ELSE LET c == SkipWs(s, k.next) IN
              IF c > Len(s) \/ s[c] # 58 THEN PErr
              ELSE LET r == ScanValue(s, SkipWs(s, c + 1)) IN
                   IF r.st # "ok" THEN r
                   ELSE LET j == SkipWs(s, r.next)
                            got == DictSet(pairs, k.val.v, r.val)
                        IN IF j > Len(s) THEN PErr
                           ELSE IF s[j] = 125 THEN POk(JDict(got), j + 1)
                           ELSE IF s[j] # 44 THEN PErr
                           ELSE ScanObject(s, SkipWs(s, j + 1), got)

\* JSONDecoder.decode: one value, white space around it, nothing after it
decode_scanned(s, r) ==
    IF r.st = "unmodelled" THEN [exc |-> "unmodelled", val |-> JNone]
    ELSE IF r.st = "err" \/ SkipWs(s, r.next) # Len(s) + 1
    THEN [exc |-> "JSONDecodeError", val |-> JNone]
    ELSE [exc |-> "", val |-> r.val]

decode_text(s) == decode_scanned(s, ScanValue(s, SkipWs(s, 1)))

json_loads(b) ==
    LET enc == detect_encoding(b)
        body == IF enc = "utf-8-sig" THEN SubSeq(b, 4, Len(b)) ELSE b
        u == IF IsAscii(body) THEN [ok |-> TRUE, v |-> body] ELSE Utf8From(body, 1, <<>>)
    IN IF enc = "other" THEN [exc |-> "unmodelled", val |-> JNone]
       ELSE IF ~u.ok THEN [exc |-> "UnicodeDecodeError", val |-> JNone]
       ELSE decode_text(u.v)

(***************************************************************************)
(* Strings and tokens                                                      *)
(***************************************************************************)
\* str.split("."): the pieces between the dots, one more than the dots
SplitDot(s) ==
    LET D == {i \in 1..Len(s) : s[i] = DOT}
        n == Cardinality(D)
        dot(k) == IF k = 0 THEN 0
                  ELSE IF k = n + 1 THEN Len(s) + 1
                  ELSE CHOOSE i \in D : Cardinality({j \in D : j < i}) = k - 1
    IN [k \in 1..(n + 1) |-> SubSeq(s, dot(k - 1) + 1, dot(k) - 1)]

\* ".".join(segments)
RECURSIVE JoinDot(_)
JoinDot(segments) ==
    IF Len(segments) = 0 THEN <<>>
    ELSE IF Len(segments) = 1 THEN segments[1]
    ELSE segments[1] \o <<DOT>> \o JoinDot(Tail(segments))

\* str.encode("utf-8")
Utf8Char(c) ==
    IF c < 128 THEN <<c>>
    ELSE IF c < 2048 THEN <<192 + (c \div 64), 128 + (c % 64)>>
    ELSE IF c < 65536
    THEN <<224 + (c \div 4096), 128 + ((c \div 64) % 64), 128 + (c % 64)>>
    ELSE <<240 + (c \div 262144), 128 + ((c \div 4096) % 64),
           128 + ((c \div 64) % 64), 128 + (c % 64)>>

RECURSIVE Utf8EncodeFrom(_, _)
Utf8EncodeFrom(text, i) ==
    IF i > Len(text) THEN <<>> ELSE Utf8Char(text[i]) \o Utf8EncodeFrom(text, i + 1)

encode_utf8(text) == IF IsAscii(text) THEN text ELSE Utf8EncodeFrom(text, 1)

(***************************************************************************)
(* Signatures.  HMAC-SHA256 and RSA PKCS#1 v1.5 signing are modelled as    *)
(* collision-free and unforgeable: the signature of a message under a key  *)
(* is a sequence of symbols (negative numbers, disjoint from every         *)
(* character) that determines the key and the message and that nothing     *)
(* else produces.  A symbol counts as one base64 character of the encoded  *)
(* signature.                                                              *)
(***************************************************************************)
HmacTag == 2000000
RsaTag == 3000000
FillSymbol == -4000000

IsSymbol(c) == c < 0

\* _hmac_sha256(secret, message)
hmac_sha256(secret, message) ==
    [i \in 1..(Len(message) + 1) |->
        IF i = 1 THEN -(HmacTag + secret) ELSE -(message[i - 1] + 1)]

\* private_key.sign(message, PKCS1v15, SHA256): deterministic; a 2048-bit
\* key gives 256 bytes, 342 base64 characters (2 more than a multiple of 4)
rsa_sign(private_key, message) ==
    LET core == [i \in 1..(Len(message) + 1) |->
                    IF i = 1 THEN -(RsaTag + private_key) ELSE -(message[i - 1] + 1)]
    IN core \o Repeat(FillSymbol, (2 - Len(core)) % 4)

\* _urlsafe_b64encode of a signature: its symbols
signature_b64encode(sig) == sig

\* _urlsafe_b64decode of a signature segment: a2b_base64's scan with the
\* signature's symbols read as alphabet characters; v is what is left of
\* the segment once padding and foreign characters are dropped
signature_b64decode(data) ==
    LET s == data \o Repeat(PAD, (-Len(data)) % 4)
        IsSym(c) == IsSymbol(c) \/ B64Value(c) < 64
        SymsBefore(i) == Cardinality({j \in 1..(i - 1) : IsSym(s[j])})
        LastSymBefore(i) ==
            LET S == {j \in 1..(i - 1) : IsSym(s[j])} IN
            IF S = {} THEN 0 ELSE CHOOSE j \in S : \A k \in S : k <= j
        PadsUpTo(i) == Cardinality({j \in (LastSymBefore(i) + 1)..i : s[j] = PAD})
        Stops == {i \in 1..Len(s) : /\ s[i] = PAD
                                     /\ SymsBefore(i) % 4 >= 2
                                     /\ (SymsBefore(i) % 4) + PadsUpTo(i) >= 4}
        end == IF Stops = {} THEN Len(s)
               ELSE (CHOOSE i \in Stops : \A k \in Stops : i <= k) - 1
        syms == SelectSeq(SubSeq(s, 1, end), IsSym)
    IN IF ~IsAscii(data) THEN [exc |-> "ValueError", v |-> <<>>]
       ELSE IF Stops = {} /\ Len(syms) % 4 # 0
       THEN [exc |-> "binascii.Error", v |-> <<>>]
       ELSE [exc |-> "", v |-> syms]

\* public_key.verify(signature, message, PKCS1v15, SHA256): TRUE when it
\* returns, FALSE when it raises InvalidSignature.  Key k's public half
\* verifies exactly what key k's private half signed.
rsa_verify(public_key, signature, message) == signature = rsa_sign(public_key, message)

\* a faulty compare_digest that looks at the lengths only (property C3 must
\* tell it from the real one)
compare_digest_lax(a, b) == [exc |-> "", eq |-> Len(a) = Len(b)]

\* hmac.compare_digest(a, b) on two str: TypeError when either holds a
\* non-ASCII character, else whether they are equal
compare_digest(a, b) ==
    IF ~IsAscii(a) \/ ~IsAscii(b) THEN [exc |-> "TypeError", eq |-> FALSE]
    ELSE [exc |-> "", eq |-> a = b]

(***************************************************************************)
(* Settings (core/config.py) and signing material                          *)
(***************************************************************************)
SecondsPerMinute == 60
SecondsPerDay == 86400

\* the clock's resolution: ticks per second (datetime.now carries a
\* fraction of a second)
TicksPerSecond == 2

\* datetime.timestamp() truncated by int(): whole seconds of a clock reading
Timestamp(clock) == clock \div TicksPerSecond

\* the secret of this deployment (Settings.__init__ lets no process start
\* without one of 32 characters or more) and one the deployment never had
ConfiguredSecret == 1
ForeignSecret == 2
\* the RSA key pair of this deployment, and a key pair of somebody else
DeployedKey == 1
ForeignKey == 2

PrivPath == "private.pem"
PubPath == "public.pem"

File(kind, key) == [kind |-> kind, key |-> key]

\* Settings(): the fields security.py reads, from the environment
Settings(e) ==
    [jwt_secret |-> e.JWT_SECRET,
     jwt_algorithm |-> e.JWT_ALGORITHM,
     jwt_exp_minutes |-> e.JWT_EXP_MINUTES,
     jwt_refresh_exp_days |-> e.JWT_REFRESH_EXP_DAYS,
     jwt_rsa_private_key_path |-> e.JWT_RSA_PRIVATE_KEY_PATH,
     jwt_rsa_public_key_path |-> e.JWT_RSA_PUBLIC_KEY_PATH]

\* get_settings() under lru_cache(maxsize=1): cache is <<>> until the first
\* call, then holds the one Settings object
get_settings(cache, e) == IF cache = <<>> THEN <<Settings(e)>> ELSE cache

\* an exception: its class and its detail
Raise(exc, detail) == [exc |-> exc, detail |-> detail]
TokenError(detail) == Raise("TokenError", detail)
NoError == Raise("", "")

\* _get_secret_and_algorithm(): (secret, algorithm, private_key, public_key),
\* a key being 0 for None; the key files are read on every call.  The detail
\* of the key-loading error goes without the text of the caught exception.
get_secret_and_algorithm(st, files) ==
    LET none == [err |-> NoError, secret |-> st.jwt_secret,
                 algorithm |-> st.jwt_algorithm, private_key |-> 0, public_key |-> 0]
    IN IF st.jwt_algorithm # "RS256" THEN none
       ELSE IF st.jwt_rsa_private_key_path = "" \/ st.jwt_rsa_public_key_path = ""
       THEN [none EXCEPT !.err =
               TokenError("RS256 requires RSA key paths to be set in environment variables")]
       ELSE LET priv == files[st.jwt_rsa_private_key_path]
                pub == files[st.jwt_rsa_public_key_path]
            IN IF priv.kind # "private" \/ pub.kind # "public"
               THEN [none EXCEPT !.err = TokenError("Failed to load RSA keys")]
               ELSE [none EXCEPT !.private_key = priv.key, !.public_key = pub.key]

(***************************************************************************)
(* _encode_jwt                                                             *)
(***************************************************************************)
Header(alg) == JDict(<<Pair(S_alg, JStr(alg)), Pair(S_typ, JStr(S_JWT))>>)

HeaderSegment(alg) == urlsafe_b64encode(encode_utf8(json_dumps_sorted(Header(alg))))
PayloadSegment(payload) == urlsafe_b64encode(encode_utf8(json_dumps(payload)))

\* a faulty _encode_jwt that signs with HMAC under every algorithm but
\* RS256 (property C10 must tell it from the real one)
encode_jwt_any_hmac(payload, secret, algorithm, private_key) ==
    IF algorithm = "RS256" /\ private_key = 0
    THEN [err |-> TokenError("RS256 requires private key"), token |-> <<>>]
    ELSE LET segments == <<HeaderSegment(S_HS256), PayloadSegment(payload)>>
             signing_input == JoinDot(segments)
             signature ==
                 IF algorithm = "RS256"
                 THEN signature_b64encode(rsa_sign(private_key, signing_input))
                 ELSE signature_b64encode(hmac_sha256(secret, signing_input))
         IN [err |-> NoError, token |-> JoinDot(Append(segments, signature))]

encode_jwt(payload, secret, algorithm, private_key) ==
    IF algorithm = "HS256"
    THEN LET segments == <<HeaderSegment(S_HS256), PayloadSegment(payload)>>
             signing_input == JoinDot(segments)
             signature == signature_b64encode(hmac_sha256(secret, signing_input))
         IN [err |-> NoError, token |-> JoinDot(Append(segments, signature))]
    ELSE IF algorithm = "RS256"
    THEN IF private_key = 0
         THEN [err |-> TokenError("RS256 requires private key"), token |-> <<>>]
         ELSE LET segments == <<HeaderSegment(S_RS256), PayloadSegment(payload)>>
                  signing_input == JoinDot(segments)
                  signature == signature_b64encode(rsa_sign(private_key, signing_input))
              IN [err |-> NoError, token |-> JoinDot(Append(segments, signature))]
    ELSE [err |-> TokenError("Unsupported JWT algorithm: " \o algorithm), token |-> <<>>]

(***************************************************************************)
(* _decode_jwt.  The result carries the steps the call went through, in    *)
(* order: "split", "verify", "parse", "expiry", and the local payload_data *)
(* as the call leaves it (None until line 119 has assigned it).            *)
(***************************************************************************)
Failed(err, steps, payload_data) ==
    [err |-> err, payload |-> JNone, steps |-> steps, payload_data |-> payload_data]

\* float(exp) for what json.loads can have produced.  Strings other than
\* signed decimal digits that float() may still accept ("1e3", "inf",
\* " 12 ", non-ASCII digits) are outside this model.
FloatChars == {43, 45, 46, 95, 32, 9, 10, 13} \cup (48..57)
              \cup {101, 69, 105, 73, 110, 78, 102, 70, 116, 84, 121, 89, 97, 65}

float_of(x) ==
    IF x.t = "int" THEN [exc |-> "", n |-> x.v]
    ELSE IF x.t = "bool" THEN [exc |-> "", n |-> IF x.v THEN 1 ELSE 0]
    ELSE IF x.t # "str" THEN [exc |-> "TypeError", n |-> 0]
    ELSE LET s == x.v
             signed == Len(s) > 0 /\ (s[1] = 43 \/ s[1] = 45)
             digits == IF signed THEN Tail(s) ELSE s
             d == ScanDigits(digits, 1, 0, 0)
         IN IF Len(digits) > 0 /\ d.next = Len(digits) + 1
            THEN [exc |-> "", n |-> IF signed /\ s[1] = 45 THEN -d.n ELSE d.n]
            ELSE IF \E i \in 1..Len(s) : s[i] \notin FloatChars
            THEN [exc |-> "ValueError", n |-> 0]
            ELSE [exc |-> "unmodelled", n |-> 0]

\* a faulty signature check that accepts everything (property C2 must tell
\* it from the real one)
verify_signature_unchecked(segments, secret, algorithm, public_key) == NoError

\* a faulty signature check that goes by the header and lets a token of
\* alg "none" through (property C27 must tell it from the real one)
verify_signature_by_header(segments, secret, algorithm, public_key) ==
    IF segments[1] = HeaderSegment(<<110, 111, 110, 101>>) THEN NoError
    ELSE IF algorithm = "HS256"
    THEN IF compare_digest(signature_b64encode(
                               hmac_sha256(secret, segments[1] \o <<DOT>> \o segments[2])),
                           segments[3]).exc # ""
         THEN Raise("TypeError", "")
         ELSE IF ~compare_digest(signature_b64encode(
                                     hmac_sha256(secret, segments[1] \o <<DOT>> \o segments[2])),
                                 segments[3]).eq
         THEN TokenError("Token signature invalid")
         ELSE NoError
    ELSE IF algorithm = "RS256"
    THEN IF public_key = 0 THEN TokenError("RS256 requires public key")
         ELSE IF signature_b64decode(segments[3]).exc # ""
                 \/ ~rsa_verify(public_key, signature_b64decode(segments[3]).v,
                                segments[1] \o <<DOT>> \o segments[2])
         THEN TokenError("Token signature invalid")
         ELSE NoError
    ELSE TokenError("Unsupported JWT algorithm: " \o algorithm)

\* the signature check of the configured algorithm (lines 98-116)
verify_signature(segments, secret, algorithm, public_key) ==
    LET signing_input == segments[1] \o <<DOT>> \o segments[2]
        signature_segment == segments[3]
    IN IF algorithm = "HS256"
       THEN LET expected_signature ==
                    signature_b64encode(hmac_sha256(secret, signing_input))
                cmp == compare_digest(expected_signature, signature_segment)
            IN IF cmp.exc # "" THEN Raise(cmp.exc, "")
               ELSE IF ~cmp.eq THEN TokenError("Token signature invalid")
               ELSE NoError
       ELSE IF algorithm = "RS256"
       THEN IF public_key = 0 THEN TokenError("RS256 requires public key")
            ELSE LET signature_bytes == signature_b64decode(signature_segment) IN
                 IF signature_bytes.exc # ""
                    \/ ~rsa_verify(public_key, signature_bytes.v, signing_input)
                 THEN TokenError("Token signature invalid")
                 ELSE NoError
       ELSE TokenError("Unsupported JWT algorithm: " \o algorithm)

\* json.loads(_urlsafe_b64decode(payload_segment)) under its except clause
\* (lines 118-121): only json.JSONDecodeError becomes a TokenError
loaded_payload(parsed) ==
    IF parsed.exc = "JSONDecodeError"
    THEN [err |-> TokenError("Token payload invalid"), val |-> JNone]
    ELSE IF parsed.exc # "" THEN [err |-> Raise(parsed.exc, ""), val |-> JNone]
    ELSE [err |-> NoError, val |-> parsed.val]

decoded_payload(raw) ==
    IF raw.exc # "" THEN [err |-> Raise(raw.exc, ""), val |-> JNone]
    ELSE loaded_payload(json_loads(raw.v))

parse_payload(payload_segment) == decoded_payload(urlsafe_b64decode(payload_segment))

\* a faulty expiry check that rejects at now == exp (property C5 must tell
\* it from the real one)
check_expiry_inclusive(payload_data, clock) ==
    IF payload_data.t # "dict" THEN Raise("AttributeError", "")
    ELSE IF DictGet(payload_data, S_exp).t = "null" THEN NoError
    ELSE IF float_of(DictGet(payload_data, S_exp)).exc # ""
    THEN Raise(float_of(DictGet(payload_data, S_exp)).exc, "")
    ELSE IF clock >= float_of(DictGet(payload_data, S_exp)).n * TicksPerSecond
    THEN TokenError("Token expired")
    ELSE NoError

\* a faulty expiry check that takes a payload without exp for an expired
\* one (property C21 must tell it from the real one)
check_expiry_required(payload_data, clock) ==
    IF payload_data.t # "dict" THEN Raise("AttributeError", "")
    ELSE IF DictGet(payload_data, S_exp).t = "null" THEN TokenError("Token expired")
    ELSE IF float_of(DictGet(payload_data, S_exp)).exc # ""
    THEN Raise(float_of(DictGet(payload_data, S_exp)).exc, "")
    ELSE IF clock > float_of(DictGet(payload_data, S_exp)).n * TicksPerSecond
    THEN TokenError("Token expired")
    ELSE NoError

\* the expiry check (lines 123-126) at clock reading `clock`
check_expiry(payload_data, clock) ==
    IF payload_data.t # "dict" THEN Raise("AttributeError", "")
    ELSE LET exp == DictGet(payload_data, S_exp) IN
         IF exp.t = "null" THEN NoError
         ELSE LET f == float_of(exp) IN
              IF f.exc # "" THEN Raise(f.exc, "")
              ELSE IF clock > f.n * TicksPerSecond THEN TokenError("Token expired")
              ELSE NoError

\* lines 123-128: e is what the expiry check raised
decode_jwt_expiry(payload_data, e) ==
    IF e.exc # "" THEN Failed(e, <<"split", "verify", "parse", "expiry">>, payload_data)
    ELSE [err |-> NoError, payload |-> payload_data,
          steps |-> <<"split", "verify", "parse", "expiry">>,
          payload_data |-> payload_data]

\* lines 118-128: p is what parsing the payload segment gave
decode_jwt_payload(p, clock) ==
    IF p.err.exc # "" THEN Failed(p.err, <<"split", "verify", "parse">>, JNone)
    ELSE decode_jwt_expiry(p.val, check_expiry(p.val, clock))

\* lines 96-128: sig is what the signature check raised
decode_jwt_signature(sig, payload_segment, clock) ==
    IF sig.exc # "" THEN Failed(sig, <<"split", "verify">>, JNone)
    ELSE decode_jwt_payload(parse_payload(payload_segment), clock)

\* lines 92-128: segments is token.split(".")
decode_jwt_segments(segments, secret, algorithm, public_key, clock) ==
    IF Len(segments) # 3
    THEN Failed(TokenError("Token structure invalid"), <<"split">>, JNone)
    ELSE decode_jwt_signature(verify_signature(segments, secret, algorithm, public_key),
                              segments[2], clock)

decode_jwt(token, secret, algorithm, public_key, clock) ==
    decode_jwt_segments(SplitDot(token), secret, algorithm, public_key, clock)

(***************************************************************************)
(* create_access_token, create_refresh_token, decode_token                 *)
(***************************************************************************)
\* a faulty payload whose iat keeps the fraction of the second (property
\* C15 must tell it from the real one)
TokenPayload_subsecond(subject, role, type, clock, lifetime_seconds) ==
    JDict(<<Pair(S_sub, JStr(subject)),
            Pair(S_role, JStr(role)),
            Pair(S_type, JStr(type)),
            Pair(S_iat, JInt(clock)),
            Pair(S_exp, JInt(Timestamp(clock + lifetime_seconds * TicksPerSecond)))>>)

TokenPayload(subject, role, type, clock, lifetime_seconds) ==
    JDict(<<Pair(S_sub, JStr(subject)),
            Pair(S_role, JStr(role)),
            Pair(S_type, JStr(type)),
            Pair(S_iat, JInt(Timestamp(clock))),
            Pair(S_exp, JInt(Timestamp(clock + lifetime_seconds * TicksPerSecond)))>>)

create_token(subject, role, type, lifetime_seconds, st, files, clock) ==
    LET m == get_secret_and_algorithm(st, files) IN
    IF m.err.exc # "" THEN [err |-> m.err, token |-> <<>>]
    ELSE encode_jwt(TokenPayload(subject, role, type, clock, lifetime_seconds),
                    m.secret, m.algorithm, m.private_key)

\* a faulty create_access_token that gives the refresh lifetime (property
\* C6 must tell it from the real one)
create_access_token_long(subject, role, st, files, clock) ==
    create_token(subject, role, S_access, st.jwt_refresh_exp_days * SecondsPerDay,
                 st, files, clock)

create_access_token(subject, role, st, files, clock) ==
    create_token(subject, role, S_access, st.jwt_exp_minutes * SecondsPerMinute,
                 st, files, clock)

create_refresh_token(subject, role, st, files, clock) ==
    create_token(subject, role, S_refresh, st.jwt_refresh_exp_days * SecondsPerDay,
                 st, files, clock)

decode_token(token, st, files, clock) ==
    LET m == get_secret_and_algorithm(st, files) IN
    IF m.err.exc # "" THEN Failed(m.err, <<>>, JNone)
    ELSE decode_jwt(token, m.secret, m.algorithm, m.public_key, clock)

(***************************************************************************)
(* get_current_user (core/dependencies.py)                                 *)
(***************************************************************************)
\* Python truthiness of a JSON value
Truthy(x) ==
    IF x.t = "null" THEN FALSE
    ELSE IF x.t = "bool" THEN x.v
    ELSE IF x.t = "int" THEN x.v # 0
    ELSE Len(x.v) > 0

\* ObjectId(user_id) accepts a str of 24 hex digits (a JSON value is never
\* bytes or an ObjectId)
IsObjectId(x) ==
    x.t = "str" /\ Len(x.v) = 24 /\ \A i \in 1..24 : HexValue(x.v[i]) >= 0

HTTPException(status, detail) == [exc |-> "HTTPException", status |-> status, detail |-> detail]

\* the response status a call's outcome leads to: 200 when nothing was
\* raised, an HTTPException's own (401 for TokenError), 500 for any other
\* exception
StatusOf(err) ==
    IF err.exc = "" THEN 200 ELSE IF err.exc = "TokenError" THEN 401 ELSE 500

\* _fetch_user(db, user_id): users is the set of stored _id strings
fetch_user(users, user_id) ==
    IF ~IsObjectId(user_id)
    THEN [err |-> HTTPException(401, "Invalid user identifier"), user |-> <<>>]
    ELSE IF user_id.v \notin users
    THEN [err |-> HTTPException(401, "User not found"), user |-> <<>>]
    ELSE [err |-> [exc |-> "", status |-> 200, detail |-> ""], user |-> user_id.v]

\* a faulty get_current_user that turns away every token whose type is not
\* "access" (property C14 must tell it from the real one)
user_of_payload_access_only(d, users) ==
    IF d.err.exc # ""
    THEN [err |-> [exc |-> d.err.exc, status |-> StatusOf(d.err), detail |-> d.err.detail],
          user |-> <<>>, decoded |-> d]
    ELSE IF ~Truthy(DictGet(d.payload, S_sub))
    THEN [err |-> HTTPException(401, "Token missing subject"),
          user |-> <<>>, decoded |-> d]
    ELSE IF DictGet(d.payload, S_type).t # "str" \/ DictGet(d.payload, S_type).v # S_access
    THEN [err |-> HTTPException(401, "Invalid token type"),
          user |-> <<>>, decoded |-> d]
    ELSE [fetch_user(users, DictGet(d.payload, S_sub)) EXCEPT !.err = @] @@ [decoded |-> d]

\* lines 45-52: d is what decode_token returned or raised
user_of_payload(d, users) ==
    IF d.err.exc # ""
    THEN [err |-> [exc |-> d.err.exc, status |-> StatusOf(d.err), detail |-> d.err.detail],
          user |-> <<>>, decoded |-> d]
    ELSE LET user_id == DictGet(d.payload, S_sub) IN
         IF ~Truthy(user_id)
         THEN [err |-> HTTPException(401, "Token missing subject"),
               user |-> <<>>, decoded |-> d]
         ELSE [fetch_user(users, user_id) EXCEPT !.err = @] @@ [decoded |-> d]

get_current_user(token, st, files, clock, users) ==
    user_of_payload(decode_token(token, st, files, clock), users)

\* what get_optional_user returns or raises without decoding: None
NoUser(d) == [err |-> [exc |-> "", status |-> 200, detail |-> ""], user |-> <<>>,
              decoded |-> d]

\* get_optional_user, lines 61-71: d is what decode_token returned or
\* raised.  TokenError and _fetch_user's HTTPException become None.
optional_user_of_payload(d, users) ==
    IF d.err.exc = "TokenError" THEN NoUser(d)
    ELSE IF d.err.exc # ""
    THEN [err |-> [exc |-> d.err.exc, status |-> StatusOf(d.err), detail |-> d.err.detail],
          user |-> <<>>, decoded |-> d]
    ELSE LET user_id == DictGet(d.payload, S_sub) IN
         IF ~Truthy(user_id) THEN NoUser(d)
         ELSE LET f == fetch_user(users, user_id) IN
              IF f.err.exc = "HTTPException" THEN NoUser(d)
              ELSE f @@ [decoded |-> d]

\* get_optional_user(token, db), lines 59-60: no decode_token call for no
\* token (None or "")
get_optional_user(token, st, files, clock, users) ==
    IF token = <<>>
    THEN NoUser([err |-> NoError, payload |-> JNone, steps |-> <<>>, payload_data |-> JNone])
    ELSE optional_user_of_payload(decode_token(token, st, files, clock), users)

\* the roles of lines 86-89
S_super_admin == <<115, 117, 112, 101, 114, 95, 97, 100, 109, 105, 110>>
S_editor == <<101, 100, 105, 116, 111, 114>>
S_viewer == <<118, 105, 101, 119, 101, 114>>

\* require_super_admin, require_org_admin, require_editor, require_viewer
require_super_admin == {S_super_admin}
require_org_admin == {S_super_admin, <<111, 114, 103, 95, 97, 100, 109, 105, 110>>}
require_editor == require_org_admin \cup {S_editor}
require_viewer == require_editor \cup {S_viewer}

\* current_user.get("role") in roles: role is <<>> for a document without
\* a role, <<the role>> otherwise
RoleIn(role, roles) == role # <<>> /\ role[1] \in roles

\* a faulty dependency that goes by the role claim of the token (property
\* C29 must tell it from the real one)
require_roles_of_token(roles, cu, docs) ==
    IF cu.err.exc # "" THEN cu
    ELSE IF DictGet(cu.decoded.payload, <<114, 111, 108, 101>>).t = "str"
            /\ DictGet(cu.decoded.payload, <<114, 111, 108, 101>>).v \in roles
    THEN cu
    ELSE [cu EXCEPT !.err = HTTPException(403, "Access denied. Required roles"),
                    !.user = <<>>]

\* the dependency require_roles(*roles) builds, lines 75-81: cu is what
\* get_current_user returned or raised, docs the users collection.  The
\* detail goes without the list of the roles.
require_roles(roles, cu, docs) ==
    IF cu.err.exc # "" THEN cu
    ELSE IF RoleIn(docs[cu.user].role, roles) THEN cu
    ELSE [cu EXCEPT !.err = HTTPException(403, "Access denied. Required roles"),
                    !.user = <<>>]

(***************************************************************************)
(* get_password_hash, verify_password (core/security.py) over bcrypt.      *)
(* bcrypt's digest is modelled as collision-free: a sequence of symbols    *)
(* that determines the cost, the salt and the key, the key being the       *)
(* password's first 72 bytes.  A bcrypt release either cuts a longer       *)
(* password down to them ("truncating", releases before 5.0) or refuses it *)
(* with ValueError ("rejecting", 5.0 and later).  An unparsable salt or    *)
(* hash gives ValueError("Invalid salt").                                  *)
(***************************************************************************)
MaxPasswordBytes == 72
BcryptTag == 5000000

DOLLAR == 36
\* "$2b$12$": what bcrypt.gensalt() starts its result with
S_2b_12 == <<DOLLAR, 50, 98, DOLLAR, 49, 50, DOLLAR>>
SaltChars == 22

IsSurrogate(c) == c >= 55296 /\ c <= 57343

\* str.encode("utf-8") of any str: a lone surrogate cannot be encoded
encode_str(text) ==
    IF \E i \in 1..Len(text) : IsSurrogate(text[i])
    THEN [exc |-> "UnicodeEncodeError", v |-> <<>>]
    ELSE [exc |-> "", v |-> encode_utf8(text)]

\* bcrypt's own base64 alphabet: . / A-Z a-z 0-9
IsBcryptChar(c) ==
    c = 46 \/ c = 47 \/ IsDigit(c) \/ (c >= 65 /\ c <= 90) \/ (c >= 97 /\ c <= 122)

\* bcrypt.gensalt(): "$2b$12$" and 22 characters of 16 random bytes; the
\* model's k-th salt repeats one character
gensalt(k) == S_2b_12 \o [i \in 1..SaltChars |-> 64 + k]

\* whether a salt or hash starts as "$2<a|b|x|y>$<cost>$<22 salt characters>",
\* the cost two digits from 04 to 31
SaltParses(salt) ==
    /\ Len(salt) >= 7 + SaltChars
    /\ salt[1] = DOLLAR /\ salt[2] = 50 /\ salt[3] \in {97, 98, 120, 121}
    /\ salt[4] = DOLLAR /\ IsDigit(salt[5]) /\ IsDigit(salt[6]) /\ salt[7] = DOLLAR
    /\ (salt[5] - 48) * 10 + (salt[6] - 48) \in 4..31
    /\ \A i \in 8..(7 + SaltChars) : IsBcryptChar(salt[i])

\* the digest of the key under the cost and salt the prefix holds
bcrypt_digest(prefix, key) ==
    <<-BcryptTag>> \o [i \in 1..Len(prefix) |-> -(prefix[i] + 1)]
        \o <<-BcryptTag>> \o [i \in 1..Len(key) |-> -(key[i] + 1)]

\* bcrypt.hashpw(password, salt): salt is a gensalt() result or a whole hash
hashpw(password, salt, build) ==
    IF build = "rejecting" /\ Len(password) > MaxPasswordBytes
    THEN [exc |-> "ValueError", v |-> <<>>]
    ELSE IF ~SaltParses(salt) THEN [exc |-> "ValueError", v |-> <<>>]
    ELSE LET prefix == SubSeq(salt, 1, 7 + SaltChars)
             key == IF Len(password) > MaxPasswordBytes
                    THEN SubSeq(password, 1, MaxPasswordBytes) ELSE password
         IN [exc |-> "", v |-> prefix \o bcrypt_digest(prefix, key)]

\* bcrypt.checkpw(password, hashed_password): hashes the password under the
\* hash's own cost and salt and compares the two
checkpw(password, hashed_password, build) ==
    LET h == hashpw(password, hashed_password, build) IN
    IF h.exc # "" THEN [exc |-> h.exc, v |-> FALSE]
    ELSE [exc |-> "", v |-> h.v = hashed_password]

\* get_password_hash(password), gensalt() giving the k-th salt
get_password_hash(password, k, build) ==
    LET pw == encode_str(password) IN
    IF pw.exc # "" THEN [exc |-> pw.exc, v |-> <<>>]
    ELSE hashpw(pw.v, gensalt(k), build)

\* a faulty verify_password without its except clause (property C17 must
\* tell it from the real one)
verify_password_uncaught(password, hashed_password, build) ==
    LET pw == encode_str(password)
        hp == encode_str(hashed_password)
    IN IF pw.exc # "" THEN [exc |-> pw.exc, v |-> FALSE]
       ELSE IF hp.exc # "" THEN [exc |-> hp.exc, v |-> FALSE]
       ELSE checkpw(pw.v, hp.v, build)

\* verify_password(password, hashed_password): ValueError, and
\* UnicodeEncodeError which is one, become False
verify_password(password, hashed_password, build) ==
    LET pw == encode_str(password)
        hp == encode_str(hashed_password)
        r == IF pw.exc # "" THEN [exc |-> pw.exc, v |-> FALSE]
             ELSE IF hp.exc # "" THEN [exc |-> hp.exc, v |-> FALSE]
             ELSE checkpw(pw.v, hp.v, build)
    IN IF r.exc \in {"ValueError", "UnicodeEncodeError"}
       THEN [exc |-> "", v |-> FALSE]
       ELSE r

(***************************************************************************)
(* The deployments, identities and tokens the model draws from             *)
(***************************************************************************)
MaxMinted == 2
MaxTicks == 2

\* "aaaaaaaaaaaaaaaaaaaaaaaa": the _id of a stored user
StoredUser == [i \in 1..24 |-> 97]
\* "\"e-acute": a subject that needs escaping and is no ObjectId
OddSubject == <<QUOTE, 233>>
S_org_admin == <<111, 114, 103, 95, 97, 100, 109, 105, 110>>

Users == {StoredUser}

\* the users collection: the document of the stored user, with its role
StoredUsers == [u \in Users |-> [role |-> <<S_org_admin>>]]

\* (subject, role) arguments of the create_* calls
Identities == {<<StoredUser, S_org_admin>>, <<OddSubject, <<>>>>}

\* (JWT_EXP_MINUTES, JWT_REFRESH_EXP_DAYS): the defaults of config.py, and
\* zero, which Settings accepts as it accepts any int
DefaultLifetimes == <<60, 30>>
ZeroLifetimes == <<0, 0>>

Env(alg, priv, pub, life) ==
    [JWT_SECRET |-> ConfiguredSecret, JWT_ALGORITHM |-> alg,
     JWT_EXP_MINUTES |-> life[1], JWT_REFRESH_EXP_DAYS |-> life[2],
     JWT_RSA_PRIVATE_KEY_PATH |-> priv, JWT_RSA_PUBLIC_KEY_PATH |-> pub]

GoodFiles == (PrivPath :> File("private", DeployedKey)) @@ (PubPath :> File("public", DeployedKey))
NoPrivateFile == (PrivPath :> File("absent", 0)) @@ (PubPath :> File("public", DeployedKey))

\* a deployment: the environment and the key files.  The two key files of
\* a deployment hold the two halves of one key pair.
Deployments ==
    {<<Env("HS256", "", "", DefaultLifetimes), GoodFiles>>,
     <<Env("HS256", "", "", ZeroLifetimes), GoodFiles>>,
     <<Env("HS512", "", "", DefaultLifetimes), GoodFiles>>,
     <<Env("RS256", "", "", DefaultLifetimes), GoodFiles>>,
     <<Env("RS256", PrivPath, PubPath, DefaultLifetimes), GoodFiles>>,
     <<Env("RS256", PrivPath, PubPath, DefaultLifetimes), NoPrivateFile>>}

\* clock advances, in ticks: one tick, and the default access lifetime
Advances == {1, 60 * SecondsPerMinute * TicksPerSecond}

\* payload segments nobody's create_* call produces: "a", '{', a payload
\* without exp, a payload with exp 0
Seg_OneChar == <<97>>
Seg_BadJson == urlsafe_b64encode(<<123>>)
Seg_NoExp == PayloadSegment(JDict(<<Pair(S_sub, JStr(StoredUser))>>))
Seg_Exp0 == PayloadSegment(JDict(<<Pair(S_sub, JStr(StoredUser)), Pair(S_exp, JInt(0))>>))

\* and with them: the empty segment, e-acute, the byte 0xFF, '[1]',
\* {"exp":"x"}, {"exp":[1]}, an exp of null, an exp of "1", no sub
OddPayloadSegments ==
    {<<>>, Seg_OneChar, Seg_BadJson, Seg_NoExp, Seg_Exp0,
     <<233>>,
     urlsafe_b64encode(<<255>>),
     urlsafe_b64encode(<<91, 49, 93>>),
     PayloadSegment(JDict(<<Pair(S_exp, JStr(<<120>>))>>)),
     PayloadSegment(JDict(<<Pair(S_exp, JList(<<JInt(1)>>))>>)),
     PayloadSegment(JDict(<<Pair(S_sub, JStr(StoredUser)), Pair(S_exp, JNone)>>)),
     PayloadSegment(JDict(<<Pair(S_sub, JStr(StoredUser)), Pair(S_exp, JStr(<<49>>))>>)),
     PayloadSegment(JDict(<<Pair(S_exp, JInt(3600))>>))}

S_none == <<110, 111, 110, 101>>

\* a token put together outside create_*: header and payload segments and
\* a third segment made by `signer`
SignedBy(signer, message) ==
    IF signer = "hmac-configured"
    THEN signature_b64encode(hmac_sha256(ConfiguredSecret, message))
    ELSE IF signer = "hmac-foreign"
    THEN signature_b64encode(hmac_sha256(ForeignSecret, message))
    ELSE IF signer = "rsa-deployed"
    THEN signature_b64encode(rsa_sign(DeployedKey, message))
    ELSE IF signer = "rsa-foreign"
    THEN signature_b64encode(rsa_sign(ForeignKey, message))
    ELSE IF signer = "text" THEN <<65, 65, 65, 65>>
    ELSE IF signer = "non-ascii" THEN <<233>>
    ELSE <<>>

Assemble(header_segment, payload_segment, signer) ==
    LET message == header_segment \o <<DOT>> \o payload_segment IN
    message \o <<DOT>> \o SignedBy(signer, message)

ForeignTokens ==
    {Assemble(HeaderSegment(S_HS256), p, "hmac-configured") : p \in OddPayloadSegments}
    \cup {Assemble(HeaderSegment(S_RS256), p, "rsa-deployed") :
              p \in {Seg_NoExp, Seg_OneChar, Seg_BadJson, Seg_Exp0}}
    \cup {Assemble(HeaderSegment(S_HS256), Seg_NoExp, s) :
              s \in {"hmac-foreign", "rsa-foreign", "text", "non-ascii", "empty"}}
    \cup {Assemble(HeaderSegment(S_HS256), p, s) :
              p \in {Seg_OneChar, Seg_Exp0}, s \in {"hmac-foreign", "non-ascii"}}
    \cup {Assemble(HeaderSegment(S_none), Seg_NoExp, s) : s \in {"hmac-configured", "empty"}}
    \cup {Assemble(HeaderSegment(S_none), Seg_Exp0, "hmac-configured"),
          Assemble(HeaderSegment(S_HS256), Seg_NoExp, "rsa-deployed")}

\* strings that are not three segments, and the three empty segments
Shapeless == {<<>>, <<97>>, <<97, DOT, 98>>, <<97, DOT, 98, DOT, 99, DOT, 100>>, <<DOT, DOT>>}

\* the payload segment of a three-segment token: its first and last index
PayloadFirst(token) == Len(SplitDot(token)[1]) + 2
PayloadLast(token) == Len(SplitDot(token)[1]) + 1 + Len(SplitDot(token)[2])

TamperChars == {65, DOT, 233}

\* one character of the payload segment replaced by another one, the
\* header and signature segments left as they are
Tampered(token) ==
    {[token EXCEPT ![i] = c] :
        <<i, c>> \in {<<j, d>> \in {PayloadFirst(token), PayloadLast(token)} \X TamperChars :
                         d # token[j]}}

\* a token with a segment added or cut off
Reshaped(token) ==
    {token \o <<DOT, 120>>,
     SubSeq(token, 1, PayloadLast(token))}

\* passwords: "", "a", "b", 72 and 73 times "a", 72 times "a" and a "b",
\* and a lone surrogate (a str json.loads gives for "\ud83d")
Long72 == [i \in 1..MaxPasswordBytes |-> 97]
LoneSurrogate == <<55357>>

Passwords ==
    {<<>>, <<97>>, <<98>>, Long72, Long72 \o <<97>>, Long72 \o <<98>>, LoneSurrogate}

S_not_a_real_hash ==
    <<110, 111, 116, 45, 97, 45, 114, 101, 97, 108, 45, 104, 97, 115, 104>>

\* hash strings bcrypt did not make: "not-a-real-hash", "", an md5-crypt
\* one ("$1$abc$def"), "$2b$12$abc", e-acute, a lone surrogate, a cost of
\* 99, and a salt without a digest
MalformedHashes ==
    {S_not_a_real_hash, <<>>,
     <<DOLLAR, 49, DOLLAR, 97, 98, 99, DOLLAR, 100, 101, 102>>,
     S_2b_12 \o <<97, 98, 99>>,
     <<233>>, LoneSurrogate,
     <<DOLLAR, 50, 98, DOLLAR, 57, 57, DOLLAR>> \o [i \in 1..SaltChars |-> 65] \o <<65>>,
     gensalt(1)}

(***************************************************************************)
(* The state machine: one process of the backend, its clock, and the calls *)
(* made into core/security.py and core/dependencies.py.  Under Spec the     *)
(* environment and the key files do not change while the process runs.     *)
(***************************************************************************)
VARIABLES
    env,        \* the process environment
    fs,         \* the key files, by path
    settings,   \* get_settings' cache: <<>> or <<the Settings object>>
    loaded,     \* <<>>, or <<what the process's first
                \* _get_secret_and_algorithm call returned>>
    now,        \* the clock, in ticks
    ticks,      \* how many times the clock was advanced
    minted,     \* the tokens create_* returned, with what they were made from
    last,       \* the call in progress at its return, op "none" between calls
    bcrypt,     \* the installed bcrypt library's way with long passwords
    stored,     \* the credential records get_password_hash made
    checked,    \* the password call in progress at its return
    calls,      \* the calls in progress in the threads of the process
    users,      \* the users collection: the stored document of each _id
    assessment, \* the assessments collection: <<>>, or <<the one document>>
    requests,   \* the candidate requests in progress, with their locals
    mongo_client, \* db/mongo.py's _client: 0 for None, or a client
    mongo_db    \* db/mongo.py's _db: 0 for None, or the client it is of

vars == <<env, fs, settings, loaded, now, ticks, minted, last,
          bcrypt, stored, checked, calls,
          users, assessment, requests, mongo_client, mongo_db>>

\* the database and the handle on it
beyond == <<users, assessment, requests, mongo_client, mongo_db>>

\* what the token calls made one at a time leave alone: the password
\* hasher's state and the threads
aside == <<bcrypt, stored, checked, calls,
           users, assessment, requests, mongo_client, mongo_db>>

NoSource == [token |-> <<>>, subject |-> <<>>, role |-> <<>>, type |-> <<>>, at |-> -1]

\* no password call and no thread's call is in progress
NotChecking == [op |-> "none", password |-> <<>>, hashed |-> <<>>, of |-> <<>>,
                exc |-> "", result |-> FALSE]
NoCalls == <<>>

\* one user document is stored, no assessment, no request is in progress
\* and db/mongo.py is as imported
BeyondInit ==
    /\ users = StoredUsers
    /\ assessment = <<>>
    /\ requests = <<>>
    /\ mongo_client = 0
    /\ mongo_db = 0

\* last.kind and last.src say where a presented token came from; err is
\* what the call raised, decode what the decode_token call inside it raised
Idle == [op |-> "none", kind |-> "", token |-> <<>>, src |-> NoSource,
         subject |-> <<>>, role |-> <<>>, material |-> <<>>,
         err |-> [exc |-> "", status |-> 0, detail |-> ""], decode |-> NoError,
         payload |-> JNone, payload_data |-> JNone, steps |-> <<>>, user |-> <<>>,
         at |-> 0, handle |-> 0, client_before |-> 0, required |-> {}]

Init ==
    /\ \E d \in Deployments : env = d[1] /\ fs = d[2]
    /\ settings = <<>>
    /\ loaded = <<>>
    /\ now = 0
    /\ ticks = 0
    /\ minted = {}
    /\ last = Idle
    /\ bcrypt = "truncating"
    /\ stored = {}
    /\ checked = NotChecking
    /\ calls = NoCalls
    /\ BeyondInit

Presentation(kind, token, src) == [kind |-> kind, token |-> token, src |-> src]

\* the tokens a client holds
Held == {Presentation("minted", m.token, m) : m \in minted}

\* a held token with its payload segment changed, or with another shape
Forged ==
    UNION {{Presentation("tampered", t, m) : t \in Tampered(m.token)}
           \cup {Presentation("reshaped", t, m) : t \in Reshaped(m.token)} : m \in minted}

\* tokens from elsewhere.  What a call makes of one depends on the token,
\* the settings, the key files and the clock, not on what was minted, so
\* they are presented while nothing is minted.
Outside ==
    IF minted # {} THEN {}
    ELSE {Presentation("foreign", t, NoSource) : t \in ForeignTokens}
         \cup {Presentation("shapeless", t, NoSource) : t \in Shapeless}

\* the call has run _get_secret_and_algorithm, which returned m: the
\* process's first such call is remembered
Loaded(m) == loaded' = IF loaded = <<>> THEN <<m>> ELSE loaded

\* what a create_* call leaves behind: the token joins the minted ones
Created(op, type, subject, role, r, m) ==
    /\ minted' = IF r.err.exc = ""
                 THEN minted \cup {[token |-> r.token, subject |-> subject,
                                    role |-> role, type |-> type, at |-> now]}
                 ELSE minted
    /\ Loaded(m)
    /\ last' = [Idle EXCEPT !.op = op, !.token = r.token, !.subject = subject,
                            !.role = role, !.at = now, !.material = <<m>>,
                            !.err = [exc |-> r.err.exc, status |-> StatusOf(r.err),
                                     detail |-> r.err.detail]]

\* create_access_token called at the clock's reading.  A run follows the
\* tokens of one identity.
CreateAccessToken ==
    /\ last.op = "none"
    /\ Cardinality(minted) < MaxMinted
    /\ settings' = get_settings(settings, env)
    /\ \E id \in Identities :
          /\ \A m \in minted : m.subject = id[1] /\ m.role = id[2]
          /\ \E r \in {create_access_token(id[1], id[2], settings'[1], fs, now)} :
                Created("create_access_token", S_access, id[1], id[2], r,
                        get_secret_and_algorithm(settings'[1], fs))
    /\ UNCHANGED <<env, fs, now, ticks>>
    /\ UNCHANGED aside

CreateRefreshToken ==
    /\ last.op = "none"
    /\ Cardinality(minted) < MaxMinted
    /\ settings' = get_settings(settings, env)
    /\ \E id \in Identities :
          /\ \A m \in minted : m.subject = id[1] /\ m.role = id[2]
          /\ \E r \in {create_refresh_token(id[1], id[2], settings'[1], fs, now)} :
                Created("create_refresh_token", S_refresh, id[1], id[2], r,
                        get_secret_and_algorithm(settings'[1], fs))
    /\ UNCHANGED <<env, fs, now, ticks>>
    /\ UNCHANGED aside

DecodeToken ==
    /\ last.op = "none"
    /\ settings' = get_settings(settings, env)
    /\ \E p \in Held \cup Forged \cup Outside :
          \E r \in {decode_token(p.token, settings'[1], fs, now)} :
             /\ last' = [Idle EXCEPT !.op = "decode_token", !.kind = p.kind,
                                     !.token = p.token, !.src = p.src, !.at = now,
                                     !.material =
                                         <<get_secret_and_algorithm(settings'[1], fs)>>,
                                     !.err = [exc |-> r.err.exc, status |-> StatusOf(r.err),
                                              detail |-> r.err.detail],
                                     !.decode = r.err,
                                     !.payload = r.payload,
                                     !.payload_data = r.payload_data, !.steps = r.steps]
    /\ Loaded(get_secret_and_algorithm(settings'[1], fs))
    /\ UNCHANGED <<env, fs, now, ticks, minted>>
    /\ UNCHANGED aside

GetCurrentUser ==
    /\ last.op = "none"
    /\ settings' = get_settings(settings, env)
    /\ \E p \in Held \cup Outside :
          \E r \in {get_current_user(p.token, settings'[1], fs, now, Users)} :
             /\ last' = [Idle EXCEPT !.op = "get_current_user", !.kind = p.kind,
                                     !.token = p.token, !.src = p.src, !.at = now,
                                     !.material =
                                         <<get_secret_and_algorithm(settings'[1], fs)>>,
                                     !.err = r.err, !.decode = r.decoded.err,
                                     !.payload = r.decoded.payload,
                                     !.payload_data = r.decoded.payload_data,
                                     !.steps = r.decoded.steps, !.user = r.user]
    /\ Loaded(get_secret_and_algorithm(settings'[1], fs))
    /\ UNCHANGED <<env, fs, now, ticks, minted>>
    /\ UNCHANGED aside

\* the caller has the result; the next call can start
Return ==
    /\ last.op # "none"
    /\ last' = Idle
    /\ UNCHANGED <<env, fs, settings, loaded, now, ticks, minted>>
    /\ UNCHANGED aside

Tick ==
    /\ last.op = "none"
    /\ ticks < MaxTicks
    /\ \E d \in Advances : now' = now + d
    /\ ticks' = ticks + 1
    /\ UNCHANGED <<env, fs, settings, loaded, minted, last>>
    /\ UNCHANGED aside

Next ==
    \/ CreateAccessToken
    \/ CreateRefreshToken
    \/ DecodeToken
    \/ GetCurrentUser
    \/ Return
    \/ Tick

Spec == Init /\ [][Next]_vars

(***************************************************************************)
(* The same process with its surroundings changing under it: while it      *)
(* runs, the key files are replaced by another key pair's, and JWT_SECRET  *)
(* is changed in the environment.                                          *)
(***************************************************************************)
RotatedFiles ==
    (PrivPath :> File("private", ForeignKey)) @@ (PubPath :> File("public", ForeignKey))

ReplaceKeyFiles ==
    /\ last.op = "none"
    /\ fs # RotatedFiles
    /\ fs' = RotatedFiles
    /\ UNCHANGED <<env, settings, loaded, now, ticks, minted, last>>
    /\ UNCHANGED aside

ChangeEnvironment ==
    /\ last.op = "none"
    /\ env.JWT_SECRET = ConfiguredSecret
    /\ env' = [env EXCEPT !.JWT_SECRET = ForeignSecret]
    /\ UNCHANGED <<fs, settings, loaded, now, ticks, minted, last>>
    /\ UNCHANGED aside

\* decode_token called with a token the process minted itself
DecodeHeld ==
    /\ last.op = "none"
    /\ settings' = get_settings(settings, env)
    /\ \E p \in Held :
          \E r \in {decode_token(p.token, settings'[1], fs, now)} :
             /\ last' = [Idle EXCEPT !.op = "decode_token", !.kind = p.kind,
                                     !.token = p.token, !.src = p.src, !.at = now,
                                     !.material =
                                         <<get_secret_and_algorithm(settings'[1], fs)>>,
                                     !.err = [exc |-> r.err.exc, status |-> StatusOf(r.err),
                                              detail |-> r.err.detail],
                                     !.decode = r.err,
                                     !.payload = r.payload,
                                     !.payload_data = r.payload_data, !.steps = r.steps]
    /\ Loaded(get_secret_and_algorithm(settings'[1], fs))
    /\ UNCHANGED <<env, fs, now, ticks, minted>>
    /\ UNCHANGED aside

NextReload ==
    \/ CreateAccessToken
    \/ CreateRefreshToken
    \/ DecodeHeld
    \/ Return
    \/ Tick
    \/ ReplaceKeyFiles
    \/ ChangeEnvironment

SpecReload == Init /\ [][NextReload]_vars

(***************************************************************************)
(* The password hasher: get_password_hash and verify_password called one   *)
(* at a time, under either kind of bcrypt release.  The credential records *)
(* are the caller's; the calls keep nothing.                               *)
(***************************************************************************)
MaxStored == 2
MaxSalts == 2

InitPassword ==
    /\ env = Env("HS256", "", "", DefaultLifetimes) /\ fs = GoodFiles
    /\ settings = <<>>
    /\ loaded = <<>>
    /\ now = 0
    /\ ticks = 0
    /\ minted = {}
    /\ last = Idle
    /\ bcrypt \in {"truncating", "rejecting"}
    /\ stored = {}
    /\ checked = NotChecking
    /\ calls = NoCalls
    /\ BeyondInit

\* get_password_hash(password); the caller stores what it returns
GetPasswordHash ==
    /\ checked.op = "none"
    /\ Cardinality(stored) < MaxStored
    /\ \E password \in Passwords, k \in 1..MaxSalts :
          \E r \in {get_password_hash(password, k, bcrypt)} :
             /\ stored' = IF r.exc = ""
                          THEN stored \cup {[password |-> password, hash |-> r.v]}
                          ELSE stored
             /\ checked' = [NotChecking EXCEPT !.op = "get_password_hash",
                                               !.password = password,
                                               !.hashed = r.v, !.exc = r.exc]
    /\ UNCHANGED <<beyond, env, fs, settings, loaded, now, ticks, minted, last, bcrypt, calls>>

\* verify_password(password, hashed_password) with a stored hash
VerifyPassword ==
    /\ checked.op = "none"
    /\ \E password \in Passwords, c \in stored :
          \E r \in {verify_password(password, c.hash, bcrypt)} :
             checked' = [NotChecking EXCEPT !.op = "verify_password",
                                            !.password = password,
                                            !.hashed = c.hash, !.of = <<c.password>>,
                                            !.exc = r.exc, !.result = r.v]
    /\ UNCHANGED <<beyond, env, fs, settings, loaded, now, ticks, minted, last, bcrypt, stored, calls>>

\* verify_password with a hash string that bcrypt did not make
VerifyMalformed ==
    /\ checked.op = "none"
    /\ \E password \in Passwords, h \in MalformedHashes :
          \E r \in {verify_password(password, h, bcrypt)} :
             checked' = [NotChecking EXCEPT !.op = "verify_password",
                                            !.password = password, !.hashed = h,
                                            !.exc = r.exc, !.result = r.v]
    /\ UNCHANGED <<beyond, env, fs, settings, loaded, now, ticks, minted, last, bcrypt, stored, calls>>

PasswordReturn ==
    /\ checked.op # "none"
    /\ checked' = NotChecking
    /\ UNCHANGED <<beyond, env, fs, settings, loaded, now, ticks, minted, last, bcrypt, stored, calls>>

NextPassword ==
    \/ GetPasswordHash
    \/ VerifyPassword
    \/ VerifyMalformed
    \/ PasswordReturn

SpecPassword == InitPassword /\ [][NextPassword]_vars

(***************************************************************************)
(* The calls running in threads.  A call is a sequence of steps, and the   *)
(* steps of the threads interleave: each get_settings() is a look into the *)
(* lru_cache and, on a miss, a Settings() construction whose result the    *)
(* cache keeps unless another thread has filled it meanwhile (the call     *)
(* goes on with its own object either way); then the key files are read,   *)
(* the clock is read, and the token is made or checked.  calls[t] holds    *)
(* thread t's call: its arguments, its locals and, at pc "done", what it   *)
(* returned or raised.                                                     *)
(***************************************************************************)
MaxThreads == 2
MaxClockTicks == 2

Threads == 1..MaxThreads

NoCall == [op |-> "none", pc |-> "idle", site |-> "", subject |-> <<>>, role |-> <<>>,
           token |-> <<>>, src |-> NoSource, password |-> <<>>, hashed |-> <<>>,
           st |-> <<>>, m |-> <<>>, missed |-> FALSE, clock |-> -1,
           err |-> NoError, out |-> <<>>, payload |-> JNone, verdict |-> FALSE]

\* the deployments the threads run in: HS256, RS256 with its key files, and
\* RS256 without key paths
ThreadDeployments ==
    {<<Env("HS256", "", "", DefaultLifetimes), GoodFiles>>,
     <<Env("RS256", PrivPath, PubPath, DefaultLifetimes), GoodFiles>>,
     <<Env("RS256", "", "", DefaultLifetimes), GoodFiles>>}

InitThreads ==
    /\ \E d \in ThreadDeployments : env = d[1] /\ fs = d[2]
    /\ settings = <<>>
    /\ loaded = <<>>
    /\ now = 0
    /\ ticks = 0
    /\ minted = {}
    /\ last = Idle
    /\ bcrypt = "truncating"
    /\ stored = {}
    /\ checked = NotChecking
    /\ calls = [t \in Threads |-> NoCall]
    /\ BeyondInit

\* a thread between two calls; `missed` stays: the thread has been through
\* Settings() in one of its calls
Fresh(t) == [NoCall EXCEPT !.missed = calls[t].missed]

\* a faulty construction that gives a different object to the call that
\* finds the cache filled meanwhile (property C19 must tell it from the
\* real one)
new_settings_unequal(cache, e) ==
    IF cache = <<>> THEN <<Settings(e)>>
    ELSE <<[Settings(e) EXCEPT !.jwt_exp_minutes = 0]>>

\* line 68, Settings(): the object a call that missed the cache goes on
\* with, whatever the cache holds by then
new_settings(cache, e) == <<Settings(e)>>

\* the token type a create call makes
TypeOf(op) == IF op = "create_access_token" THEN S_access ELSE S_refresh

\* the lifetime create_access_token / create_refresh_token reads from its
\* own settings object (lines 136, 153), in seconds
LifetimeOf(op, st) ==
    IF op = "create_access_token" THEN st.jwt_exp_minutes * SecondsPerMinute
    ELSE st.jwt_refresh_exp_days * SecondsPerDay

\* a faulty call that reads the clock again when it builds the payload
\* (property C18 must tell it from the real one)
call_clock_again(c, current) == current

\* the clock reading a call works with: its local `now` (lines 135, 152)
call_clock(c, current) == c.clock

\* the create call a thread makes: the first thread serves logins, the
\* others serve refreshes
CreateOf(t) == IF t = 1 THEN "create_access_token" ELSE "create_refresh_token"

\* thread t calls create_access_token or create_refresh_token: line 133 /
\* 150, get_settings(), is next.  Create calls start until one has
\* returned a token.
CallCreate ==
    \E t \in Threads : \E op \in {CreateOf(t)} :
        /\ calls[t].op = "none"
        /\ minted = {}
        /\ calls' = [calls EXCEPT ![t] =
                        [Fresh(t) EXCEPT !.op = op, !.pc = "get_settings", !.site = "create",
                                       !.subject = StoredUser, !.role = S_org_admin]]
        /\ UNCHANGED <<beyond, env, fs, settings, loaded, now, ticks, minted, last,
                       bcrypt, stored, checked>>

\* thread t calls decode_token with a minted token: line 167,
\* _get_secret_and_algorithm(), is next
CallDecode ==
    \E t \in Threads, m \in minted :
        /\ calls[t].op = "none"
        /\ calls' = [calls EXCEPT ![t] =
                        [Fresh(t) EXCEPT !.op = "decode_token", !.pc = "get_settings",
                                       !.site = "material", !.token = m.token, !.src = m]]
        /\ UNCHANGED <<beyond, env, fs, settings, loaded, now, ticks, minted, last,
                       bcrypt, stored, checked>>

\* get_settings() has returned `value` to thread t's call: at line 133 /
\* 150 it is the call's `settings`, and _get_secret_and_algorithm's
\* get_settings() is next; at line 26 the key files are read with it
Returned(t, value, miss) ==
    LET c == [calls[t] EXCEPT !.missed = @ \/ miss] IN
    IF c.site = "create"
    THEN calls' = [calls EXCEPT ![t] =
                      [c EXCEPT !.st = value, !.pc = "get_settings", !.site = "material"]]
    ELSE \E m \in {get_secret_and_algorithm(value[1], fs)} :
            calls' = [calls EXCEPT ![t] =
                         IF m.err.exc # ""
                         THEN [c EXCEPT !.m = <<m>>, !.pc = "done", !.err = m.err]
                         ELSE [c EXCEPT !.m = <<m>>,
                                        !.pc = IF c.op = "decode_token"
                                               THEN "decode" ELSE "now"]]

\* the lru_cache is looked into: a hit returns the cached object, a miss
\* starts Settings()
CacheLookup ==
    \E t \in Threads :
        /\ calls[t].pc = "get_settings"
        /\ IF settings # <<>>
           THEN Returned(t, settings, FALSE)
           ELSE calls' = [calls EXCEPT ![t].pc = "Settings()"]
        /\ UNCHANGED <<beyond, env, fs, settings, loaded, now, ticks, minted, last,
                       bcrypt, stored, checked>>

\* Settings() is done: the cache takes the object unless it was filled
\* meanwhile, and the call goes on with the object it made
CacheFill ==
    \E t \in Threads :
        /\ calls[t].pc = "Settings()"
        /\ settings' = get_settings(settings, env)
        /\ Returned(t, new_settings(settings, env), TRUE)
        /\ UNCHANGED <<beyond, env, fs, loaded, now, ticks, minted, last,
                       bcrypt, stored, checked>>

\* lines 135 / 152: now = datetime.now(timezone.utc)
ReadClock ==
    \E t \in Threads :
        /\ calls[t].pc = "now"
        /\ calls' = [calls EXCEPT ![t].clock = now, ![t].pc = "encode"]
        /\ UNCHANGED <<beyond, env, fs, settings, loaded, now, ticks, minted, last,
                       bcrypt, stored, checked>>

\* lines 136-145 / 153-162: the payload is built from the call's locals
\* and encoded; the caller has the token
Encode ==
    \E t \in Threads :
        /\ calls[t].pc = "encode"
        /\ \E r \in {encode_jwt(TokenPayload(calls[t].subject, calls[t].role,
                                             TypeOf(calls[t].op),
                                             call_clock(calls[t], now),
                                             LifetimeOf(calls[t].op, calls[t].st[1])),
                                calls[t].m[1].secret, calls[t].m[1].algorithm,
                                calls[t].m[1].private_key)} :
              /\ calls' = [calls EXCEPT ![t].pc = "done", ![t].err = r.err,
                                        ![t].out = r.token]
              /\ minted' = IF r.err.exc = ""
                           THEN minted \cup {[token |-> r.token,
                                              subject |-> calls[t].subject,
                                              role |-> calls[t].role,
                                              type |-> TypeOf(calls[t].op),
                                              at |-> calls[t].clock]}
                           ELSE minted
        /\ UNCHANGED <<beyond, env, fs, settings, loaded, now, ticks, last,
                       bcrypt, stored, checked>>

\* _decode_jwt with the material the call loaded; line 123 reads the clock
Decode ==
    \E t \in Threads :
        /\ calls[t].pc = "decode"
        /\ \E r \in {decode_jwt(calls[t].token, calls[t].m[1].secret,
                                calls[t].m[1].algorithm, calls[t].m[1].public_key,
                                now)} :
              calls' = [calls EXCEPT ![t].pc = "done", ![t].clock = now,
                                     ![t].err = r.err, ![t].payload = r.payload]
        /\ UNCHANGED <<beyond, env, fs, settings, loaded, now, ticks, minted, last,
                       bcrypt, stored, checked>>

\* get_password_hash and verify_password read nothing but their arguments
CallHash ==
    \E t \in Threads, k \in {1} :
        /\ calls[t].op = "none"
        /\ \E r \in {get_password_hash(<<97>>, k, bcrypt)} :
              calls' = [calls EXCEPT ![t] =
                           [Fresh(t) EXCEPT !.op = "get_password_hash", !.pc = "done",
                                          !.password = <<97>>, !.site = "salt",
                                          !.clock = k,
                                          !.err = Raise(r.exc, ""), !.out = r.v]]
        /\ UNCHANGED <<beyond, env, fs, settings, loaded, now, ticks, minted, last,
                       bcrypt, stored, checked>>

CallVerify ==
    \E t \in Threads, password \in {<<97>>},
       h \in {S_not_a_real_hash, get_password_hash(<<97>>, 1, bcrypt).v} :
        /\ calls[t].op = "none"
        /\ \E r \in {verify_password(password, h, bcrypt)} :
              calls' = [calls EXCEPT ![t] =
                           [Fresh(t) EXCEPT !.op = "verify_password", !.pc = "done",
                                          !.password = password, !.hashed = h,
                                          !.err = Raise(r.exc, ""), !.verdict = r.v]]
        /\ UNCHANGED <<beyond, env, fs, settings, loaded, now, ticks, minted, last,
                       bcrypt, stored, checked>>

\* the caller has the result; the thread is free for the next call
Finish ==
    \E t \in Threads :
        /\ calls[t].pc = "done"
        /\ calls' = [calls EXCEPT ![t] = Fresh(t)]
        /\ UNCHANGED <<beyond, env, fs, settings, loaded, now, ticks, minted, last,
                       bcrypt, stored, checked>>

\* the clock moves on while calls are under way
ClockTick ==
    /\ ticks < MaxClockTicks
    /\ now' = now + 1
    /\ ticks' = ticks + 1
    /\ UNCHANGED <<beyond, env, fs, settings, loaded, minted, last, bcrypt, stored, checked, calls>>

NextThreads ==
    \/ CallCreate
    \/ CallDecode
    \/ CacheLookup
    \/ CacheFill
    \/ ReadClock
    \/ Encode
    \/ Decode
    \/ CallHash
    \/ CallVerify
    \/ Finish
    \/ ClockTick

SpecThreads == InitThreads /\ [][NextThreads]_vars

(***************************************************************************)
(* core/dependencies.py over a users collection that changes: roles are    *)
(* changed and the user is deleted between the requests.                   *)
(***************************************************************************)
\* the roles a stored user is given; <<>> is a document without a role
StoredRoles == {<<S_org_admin>>, <<S_viewer>>, <<>>}

\* the dependencies the routes are built with
RoleSets == {require_org_admin, require_viewer}

InitUsers ==
    /\ env = Env("HS256", "", "", DefaultLifetimes) /\ fs = GoodFiles
    /\ settings = <<>>
    /\ loaded = <<>>
    /\ now = 0
    /\ ticks = 0
    /\ minted = {}
    /\ last = Idle
    /\ bcrypt = "truncating"
    /\ stored = {}
    /\ checked = NotChecking
    /\ calls = NoCalls
    /\ BeyondInit

\* an administrator gives the user another role
ChangeRole ==
    /\ last.op = "none"
    /\ \E u \in DOMAIN users, role \in StoredRoles :
          /\ role # users[u].role
          /\ users' = [users EXCEPT ![u].role = role]
    /\ UNCHANGED <<env, fs, settings, loaded, now, ticks, minted, last,
                   bcrypt, stored, checked, calls,
                   assessment, requests, mongo_client, mongo_db>>

\* the user's document is removed
DeleteUser ==
    /\ last.op = "none"
    /\ users # <<>>
    /\ users' = <<>>
    /\ UNCHANGED <<env, fs, settings, loaded, now, ticks, minted, last,
                   bcrypt, stored, checked, calls,
                   assessment, requests, mongo_client, mongo_db>>

\* a request without a token, with no token at all
NoToken == {Presentation("absent", <<>>, NoSource)}

GetOptionalUser ==
    /\ last.op = "none"
    /\ settings' = get_settings(settings, env)
    /\ \E p \in Held \cup Outside \cup NoToken :
          \E r \in {get_optional_user(p.token, settings'[1], fs, now, DOMAIN users)} :
             /\ last' = [Idle EXCEPT !.op = "get_optional_user", !.kind = p.kind,
                                     !.token = p.token, !.src = p.src, !.at = now,
                                     !.err = r.err, !.decode = r.decoded.err,
                                     !.payload = r.decoded.payload,
                                     !.payload_data = r.decoded.payload_data,
                                     !.steps = r.decoded.steps, !.user = r.user]
    /\ UNCHANGED <<env, fs, loaded, now, ticks, minted>>
    /\ UNCHANGED aside

\* a request to a route that depends on require_roles(*roles)
RequireRoles ==
    /\ last.op = "none"
    /\ settings' = get_settings(settings, env)
    /\ \E p \in Held \cup Outside, roles \in RoleSets :
          \E r \in {require_roles(roles,
                                  get_current_user(p.token, settings'[1], fs, now,
                                                   DOMAIN users),
                                  users)} :
             /\ last' = [Idle EXCEPT !.op = "require_roles", !.kind = p.kind,
                                     !.token = p.token, !.src = p.src, !.at = now,
                                     !.required = roles,
                                     !.err = r.err, !.decode = r.decoded.err,
                                     !.payload = r.decoded.payload,
                                     !.payload_data = r.decoded.payload_data,
                                     !.steps = r.decoded.steps, !.user = r.user]
    /\ UNCHANGED <<env, fs, loaded, now, ticks, minted>>
    /\ UNCHANGED aside

NextUsers ==
    \/ CreateAccessToken
    \/ CreateRefreshToken
    \/ ChangeRole
    \/ DeleteUser
    \/ GetOptionalUser
    \/ RequireRoles
    \/ Return
    \/ Tick

SpecUsers == InitUsers /\ [][NextUsers]_vars

(***************************************************************************)
(* db/mongo.py: the module-level _client and _db over the calls of         *)
(* connect_to_mongo, close_mongo_connection and get_database.  A client is *)
(* a positive number, the k-th AsyncIOMotorClient the process made; a      *)
(* database handle is the number of the client it belongs to.              *)
(***************************************************************************)
MaxClients == 3

\* connect_to_mongo(): (_client, _db) after the call, lines 16-19
connect_to_mongo(c, d) == IF c = 0 THEN <<d + 1, d + 1>> ELSE <<c, d>>

\* close_mongo_connection(): (_client, _db) after the call, lines 23-26;
\* `global _client` is the one name the function assigns
close_mongo_connection(c, d) == IF c # 0 THEN <<0, d>> ELSE <<c, d>>

\* get_database(): lines 30-32
get_database(d) ==
    IF d = 0
    THEN [err |-> Raise("RuntimeError",
                        "MongoDB has not been initialized. Call connect_to_mongo() on startup."),
          handle |-> 0]
    ELSE [err |-> NoError, handle |-> d]

ConnectToMongo ==
    /\ last.op = "none"
    /\ mongo_db < MaxClients
    /\ settings' = get_settings(settings, env)
    /\ \E r \in {connect_to_mongo(mongo_client, mongo_db)} :
          mongo_client' = r[1] /\ mongo_db' = r[2]
    /\ last' = [Idle EXCEPT !.op = "connect_to_mongo", !.at = now,
                            !.client_before = mongo_client]
    /\ UNCHANGED <<env, fs, loaded, now, ticks, minted, bcrypt, stored, checked, calls,
                   users, assessment, requests>>

CloseMongoConnection ==
    /\ last.op = "none"
    /\ \E r \in {close_mongo_connection(mongo_client, mongo_db)} :
          mongo_client' = r[1] /\ mongo_db' = r[2]
    /\ last' = [Idle EXCEPT !.op = "close_mongo_connection", !.at = now,
                            !.client_before = mongo_client]
    /\ UNCHANGED <<env, fs, settings, loaded, now, ticks, minted, bcrypt, stored, checked,
                   calls, users, assessment, requests>>

GetDatabase ==
    /\ last.op = "none"
    /\ \E r \in {get_database(mongo_db)} :
          last' = [Idle EXCEPT !.op = "get_database", !.at = now,
                               !.client_before = mongo_client,
                               !.err = [exc |-> r.err.exc, status |-> StatusOf(r.err),
                                        detail |-> r.err.detail],
                               !.handle = r.handle]
    /\ UNCHANGED <<env, fs, settings, loaded, now, ticks, minted, bcrypt, stored, checked,
                   calls, users, assessment, requests, mongo_client, mongo_db>>

NextMongo ==
    \/ ConnectToMongo
    \/ CloseMongoConnection
    \/ GetDatabase
    \/ Return
    \/ Tick

SpecMongo == Init /\ [][NextMongo]_vars

(***************************************************************************)
(* routers/candidate.py: the candidate routes over one assessment          *)
(* document.  Texts that are cut, joined or split (emails, names, keys,    *)
(* update paths) are sequences of character codes.  A schedule time is a   *)
(* record of the form of the stored value and the reading it spells:       *)
(* "none" (no value), "empty" (""), "Z" (ISO text ending in Z), "naive"    *)
(* (ISO text without a zone), "offset" (ISO text with +hh:mm), "text"      *)
(* (a str that is no ISO time), "int" (a value that is no str).  The       *)
(* collection is as MongoDB from 3.6 with pymongo 4 keeps it: replace_one  *)
(* stores a field name with a dot as it is, an update path is split at     *)
(* its dots.                                                               *)
(***************************************************************************)
GracePeriodSeconds == 120
MaxAnswerLength == 50000

\* str.strip() and str.lower(), the latter for ASCII letters
IsSpace(c) == c \in {9, 10, 11, 12, 13, 28, 29, 30, 31, 32, 133, 160}

strip(text) ==
    LET keep == {i \in 1..Len(text) : ~IsSpace(text[i])} IN
    IF keep = {} THEN <<>>
    ELSE SubSeq(text, CHOOSE i \in keep : \A j \in keep : i <= j,
                      CHOOSE i \in keep : \A j \in keep : i >= j)

lower(text) ==
    [i \in 1..Len(text) |-> IF text[i] >= 65 /\ text[i] <= 90 THEN text[i] + 32 ELSE text[i]]

\* html.escape(text): & < > " ' are replaced
RECURSIVE html_escape(_)
html_escape(text) ==
    IF text = <<>> THEN <<>>
    ELSE (IF Head(text) = 38 THEN <<38, 97, 109, 112, 59>>
          ELSE IF Head(text) = 60 THEN <<38, 108, 116, 59>>
          ELSE IF Head(text) = 62 THEN <<38, 103, 116, 59>>
          ELSE IF Head(text) = 34 THEN <<38, 113, 117, 111, 116, 59>>
          ELSE IF Head(text) = 39 THEN <<38, 35, 120, 50, 55, 59>>
          ELSE <<Head(text)>>) \o html_escape(Tail(text))

\* schedule times
Time(form, local, offset) == [form |-> form, local |-> local, offset |-> offset]
NoTime == Time("none", 0, 0)

\* `not start_time_str`: None and "" are false
TimeGiven(x) == x.form \notin {"none", "empty"}

\* datetime.fromisoformat(x.replace("Z", "+00:00")), made aware as UTC when
\* it has no zone (lines 42-49): the instant in seconds.  A value without
\* .replace raises AttributeError, a text that is no ISO time ValueError.
fromisoformat(x) ==
    IF x.form = "int" THEN [exc |-> "AttributeError", t |-> 0]
    ELSE IF x.form = "text" THEN [exc |-> "ValueError", t |-> 0]
    ELSE IF x.form = "offset" THEN [exc |-> "", t |-> x.local - x.offset]
    ELSE [exc |-> "", t |-> x.local]

Ok200 == [exc |-> "", status |-> 200, detail |-> ""]

\* a faulty window check that closes the window at endTime itself
\* (property C24 must tell it from the real one)
check_assessment_time_window_open_end(doc, allow_before_start, clock) ==
    IF ~TimeGiven(doc.schedule.startTime) \/ ~TimeGiven(doc.schedule.endTime) THEN Ok200
    ELSE IF fromisoformat(doc.schedule.startTime).exc # "" THEN Ok200
    ELSE IF fromisoformat(doc.schedule.endTime).exc # "" THEN Ok200
    ELSE IF clock < fromisoformat(doc.schedule.startTime).t * TicksPerSecond
    THEN IF allow_before_start THEN Ok200
         ELSE HTTPException(403, "Assessment has not started yet")
    ELSE IF clock >= fromisoformat(doc.schedule.endTime).t * TicksPerSecond
    THEN HTTPException(403, "Assessment has ended")
    ELSE Ok200

\* _check_assessment_time_window(assessment, allow_before_start) at the
\* clock reading of line 51; the details go without the time they quote
check_assessment_time_window(doc, allow_before_start, clock) ==
    LET start_time_str == doc.schedule.startTime
        end_time_str == doc.schedule.endTime
    IN IF ~TimeGiven(start_time_str) \/ ~TimeGiven(end_time_str) THEN Ok200
       ELSE LET start_time == fromisoformat(start_time_str)
                end_time == fromisoformat(end_time_str)
            IN IF start_time.exc # "" \/ end_time.exc # "" THEN Ok200
               ELSE IF clock < start_time.t * TicksPerSecond
               THEN IF allow_before_start THEN Ok200
                    ELSE HTTPException(403, "Assessment has not started yet")
               ELSE IF clock > end_time.t * TicksPerSecond
               THEN HTTPException(403, "Assessment has ended")
               ELSE Ok200

\* a faulty submission window without the grace period (property C25 must
\* tell it from the real one)
submission_window_no_grace(doc, clock) ==
    IF ~TimeGiven(doc.schedule.startTime) \/ ~TimeGiven(doc.schedule.endTime) THEN Ok200
    ELSE IF fromisoformat(doc.schedule.startTime).exc # "" THEN Ok200
    ELSE IF fromisoformat(doc.schedule.endTime).exc # "" THEN Ok200
    ELSE IF clock < fromisoformat(doc.schedule.startTime).t * TicksPerSecond
    THEN HTTPException(403, "Assessment has not started yet")
    ELSE IF clock > fromisoformat(doc.schedule.endTime).t * TicksPerSecond
    THEN HTTPException(403, "Assessment has ended. Submission deadline has passed.")
    ELSE Ok200

\* submit_candidate_answers' own window, lines 344-376, at the clock
\* reading of line 358
submission_window(doc, clock) ==
    LET start_time_str == doc.schedule.startTime
        end_time_str == doc.schedule.endTime
    IN IF ~TimeGiven(start_time_str) \/ ~TimeGiven(end_time_str) THEN Ok200
       ELSE LET start_time == fromisoformat(start_time_str)
                end_time == fromisoformat(end_time_str)
            IN IF start_time.exc # "" \/ end_time.exc # "" THEN Ok200
               ELSE IF clock < start_time.t * TicksPerSecond
               THEN HTTPException(403, "Assessment has not started yet")
               ELSE IF clock > end_time.t * TicksPerSecond
                       /\ clock - end_time.t * TicksPerSecond
                              > GracePeriodSeconds * TicksPerSecond
               THEN HTTPException(403,
                                  "Assessment has ended. Submission deadline has passed.")
               ELSE Ok200

\* any(c.get("email", "").strip().lower() == email and
\*     c.get("name", "").strip() == name for c in candidates)
candidate_found(candidates, email, name) ==
    \E i \in 1..Len(candidates) :
        lower(strip(candidates[i].email)) = email /\ strip(candidates[i].name) = name

\* f"{email}_{name}"
candidate_key(email, name) == email \o <<95>> \o name

\* "answerLogs"
S_answerLogs == <<97, 110, 115, 119, 101, 114, 76, 111, 103, 115>>

\* f"answerLogs.{candidate_key}.{question_key}", question_key being
\* str(payload.questionIndex)
update_path(key, questionIndex) ==
    S_answerLogs \o <<DOT>> \o key \o <<DOT>> \o DumpsInt(questionIndex)

\* the field names MongoDB walks for an update path: the path cut at its
\* dots.  answerLogs is kept as the lists it holds, each under the field
\* names that lead to it from the document.
FieldNames(path) == SplitDot(path)

\* lines 242-244: assessment.get("answerLogs", {}).get(candidate_key, {})
\* .get(question_key, []) on the document as read: the field names are the
\* three keys as they are
question_logs(doc, key, questionIndex) ==
    IF <<S_answerLogs, key, DumpsInt(questionIndex)>> \in DOMAIN doc.answerLogs
    THEN doc.answerLogs[<<S_answerLogs, key, DumpsInt(questionIndex)>>]
    ELSE <<>>

\* update_one({"_id": oid, path: {"$exists": True}}, {"$push": {path: entry}})
\* on the stored documents: (matched_count, the documents afterwards)
update_one_push(docs, path, entry) ==
    IF docs = <<>> \/ FieldNames(path) \notin DOMAIN docs[1].answerLogs
    THEN [matched_count |-> 0, docs |-> docs]
    ELSE [matched_count |-> 1,
          docs |-> <<[docs[1] EXCEPT !.answerLogs[FieldNames(path)] = Append(@, entry)]>>]

\* update_one({"_id": oid}, {"$set": {path: [entry]}})
update_one_set(docs, path, entry) ==
    IF docs = <<>> THEN [matched_count |-> 0, docs |-> docs]
    ELSE [matched_count |-> 1,
          docs |-> <<[docs[1] EXCEPT !.answerLogs =
                         (FieldNames(path) :> <<entry>>) @@ docs[1].answerLogs]>>]

\* replace_one({"_id": oid}, assessment)
replace_one(docs, doc) == IF docs = <<>> THEN docs ELSE <<doc>>

\* lines 248-253: the log entry
LogEntry(answer, questionType, clock, version) ==
    [answer |-> answer, questionType |-> questionType, timestamp |-> clock,
     version |-> version]

\* question.get("score", 5): score is <<>> for a question without one
ScoreOf(question) == IF question.score = <<>> THEN 5 ELSE question.score[1]

\* lines 378-402: the score of the answers over the questions of all topics
RECURSIVE ScoreFrom(_, _, _)
ScoreFrom(questions, answers, idx) ==
    IF idx > Len(questions) THEN [score |-> 0, maxScore |-> 0, correctAnswers |-> 0]
    ELSE LET rest == ScoreFrom(questions, answers, idx + 1)
             question == questions[idx]
             given == {i \in 1..Len(answers) : answers[i].questionIndex = idx - 1}
             right == /\ given # {}
                      /\ question.type = "MCQ"
                      /\ answers[CHOOSE i \in given : \A j \in given : i <= j].answer
                             = question.correctAnswer
         IN [score |-> rest.score + (IF right THEN ScoreOf(question) ELSE 0),
             maxScore |-> rest.maxScore + ScoreOf(question),
             correctAnswers |-> rest.correctAnswers + (IF right THEN 1 ELSE 0)]

\* lines 405-419: the document as read, with the candidate's response put
\* into candidateResponses under the key as it is
with_response(doc, email, name, answers, skipped, clock) ==
    LET sc == ScoreFrom(doc.questions, answers, 1)
        response == [email |-> email, name |-> name, answers |-> answers,
                     skippedQuestions |-> skipped,
                     score |-> sc.score, maxScore |-> sc.maxScore,
                     attempted |-> Len(answers),
                     notAttempted |-> Len(doc.questions) - Len(answers) - Len(skipped),
                     correctAnswers |-> sc.correctAnswers,
                     submittedAt |-> clock]
    IN [doc EXCEPT !.candidateResponses =
           (candidate_key(email, name) :> response) @@ doc.candidateResponses]

\* what every route does with a document it has read before it looks at
\* the time: the assessment token, and for the routes of a candidate the
\* candidate list (lines 98-109, 134-135, 168-169, 223-233, 329-339)
token_and_candidate(doc, token, email, name, with_candidate, detail) ==
    IF doc.assessmentToken # token THEN HTTPException(403, "Invalid assessment token")
    ELSE IF with_candidate /\ ~candidate_found(doc.candidates, email, name)
    THEN HTTPException(403, detail)
    ELSE Ok200

\* the routes
ReadRoutes == {"verify-candidate", "get-schedule", "get-questions"}
WriteRoutes == {"log-answer", "submit-answers"}

\* the routes that take a candidate's email and name
OfCandidate(op) == op \in {"verify-candidate", "log-answer", "submit-answers"}

\* the _id of the stored assessment, an ObjectId no assessment has, and a
\* text that is no ObjectId
TheAssessment == [i \in 1..24 |-> 98]
OtherAssessment == [i \in 1..24 |-> 99]
NoObjectId == <<120>>

S_token == <<116>>

\* the candidates: "a@b.c" / "N", whose key holds a dot, and "d@e" / "M",
\* whose key holds none; the first is stored as " A@b.c" / "N "
DottedEmail == <<97, 64, 98, DOT, 99>>
PlainEmail == <<100, 64, 101>>
StoredCandidates ==
    <<[email |-> <<32, 65, 64, 98, DOT, 99>>, name |-> <<78, 32>>],
      [email |-> PlainEmail, name |-> <<77>>]>>

\* the one question of the assessment, and the answers submitted to it
Questions == <<[type |-> "MCQ", correctAnswer |-> <<65>>, score |-> <<>>]>>
Answers == <<[questionIndex |-> 0, answer |-> <<65>>]>>

Payload(assessmentId, token, email, name) ==
    [assessmentId |-> assessmentId, token |-> token, email |-> email, name |-> name]

\* the requests of the two candidates, the first typing the email in
\* capitals
GoodPayloads ==
    {Payload(TheAssessment, S_token, <<65, 64, 66, DOT, 67, 32>>, <<78>>),
     Payload(TheAssessment, S_token, PlainEmail, <<77>>)}

\* requests that are turned away: another token, somebody not on the
\* list, no name, an assessment that is not stored, no ObjectId
OddPayloads ==
    {Payload(TheAssessment, <<117>>, PlainEmail, <<77>>),
     Payload(TheAssessment, S_token, PlainEmail, <<78>>),
     Payload(TheAssessment, S_token, PlainEmail, <<32>>),
     Payload(OtherAssessment, S_token, PlainEmail, <<77>>),
     Payload(NoObjectId, S_token, PlainEmail, <<77>>)}

\* the assessment document under a schedule
Assessment(startTime, endTime) ==
    [assessmentToken |-> S_token,
     candidates |-> StoredCandidates,
     schedule |-> [startTime |-> startTime, endTime |-> endTime],
     questions |-> Questions,
     answerLogs |-> <<>>,
     candidateResponses |-> <<>>]

NoRequest ==
    [op |-> "none", pc |-> "idle",
     assessmentId |-> <<>>, token |-> <<>>, email |-> <<>>, name |-> <<>>,
     answer |-> <<>>, questionIndex |-> 0,
     doc |-> <<>>, clock |-> -1, version |-> 0, err |-> Ok200]

\* a request has arrived: lines 80-83, 203-205, 309-314 have read it
Arrived(op, pl) ==
    [NoRequest EXCEPT !.op = op, !.pc = "find",
                      !.assessmentId = pl.assessmentId, !.token = pl.token,
                      !.email = lower(strip(pl.email)), !.name = strip(pl.name),
                      !.answer = html_escape(strip(<<32, 60, 98, 62>>))]

\* what the route raises before it reads the assessment (lines 85-91,
\* 124-127, 158-161, 207-216, 316-322); get-schedule and get-questions
\* take no email and no name
before_find(r) ==
    IF r.op \in {"verify-candidate", "submit-answers"}
       /\ (r.assessmentId = <<>> \/ r.token = <<>> \/ r.email = <<>> \/ r.name = <<>>)
    THEN HTTPException(400, "Missing required fields")
    ELSE IF r.op = "log-answer" /\ (r.email = <<>> \/ r.name = <<>>)
    THEN HTTPException(400, "Email and name are required")
    ELSE IF r.op = "log-answer" /\ Len(r.answer) > MaxAnswerLength
    THEN HTTPException(400, "Answer text exceeds maximum length of 50,000 characters")
    ELSE IF ~IsObjectId(JStr(r.assessmentId))
    THEN HTTPException(400, "Invalid assessment ID")
    ELSE Ok200

\* db.assessments.find_one({"_id": oid}) on the stored documents
find_one(docs, oid) == IF docs # <<>> /\ oid = TheAssessment THEN docs ELSE <<>>

\* the request after its find_one: turned away, or holding the document
found(r, e, doc) ==
    IF e.exc # "" THEN [r EXCEPT !.pc = "done", !.err = e]
    ELSE IF doc = <<>>
    THEN [r EXCEPT !.pc = "done", !.err = HTTPException(404, "Assessment not found")]
    ELSE [r EXCEPT !.pc = "found", !.doc = doc]

\* requests that write arrive until the documents hold this many answer
\* lists and responses
MaxWritten == 1

\* the slots of the requests in progress
Slots == DOMAIN requests

Visit ==
    \E i \in Slots, op \in ReadRoutes, pl \in GoodPayloads \cup OddPayloads :
        /\ requests[i].op = "none"
        /\ requests' = [requests EXCEPT ![i] = Arrived(op, pl)]
        /\ UNCHANGED <<env, fs, settings, loaded, now, ticks, minted, last,
                       bcrypt, stored, checked, calls,
                       users, assessment, mongo_client, mongo_db>>

\* the answer lists and the responses the documents hold
Written(docs) ==
    IF docs = <<>> THEN 0
    ELSE Cardinality(DOMAIN docs[1].answerLogs)
         + Cardinality(DOMAIN docs[1].candidateResponses)

Write ==
    \E i \in Slots, op \in WriteRoutes, pl \in GoodPayloads :
        /\ requests[i].op = "none"
        /\ Written(assessment) < MaxWritten
        /\ requests' = [requests EXCEPT ![i] = Arrived(op, pl)]
        /\ UNCHANGED <<env, fs, settings, loaded, now, ticks, minted, last,
                       bcrypt, stored, checked, calls,
                       users, assessment, mongo_client, mongo_db>>

WriteOdd ==
    \E i \in Slots, op \in WriteRoutes, pl \in OddPayloads :
        /\ requests[i].op = "none"
        /\ requests' = [requests EXCEPT ![i] = Arrived(op, pl)]
        /\ UNCHANGED <<env, fs, settings, loaded, now, ticks, minted, last,
                       bcrypt, stored, checked, calls,
                       users, assessment, mongo_client, mongo_db>>

\* the route's await db.assessments.find_one(...) and what comes before it
FindOne ==
    \E i \in Slots :
        /\ requests[i].pc = "find"
        /\ requests' = [requests EXCEPT ![i] =
                           found(requests[i], before_find(requests[i]),
                                 find_one(assessment, requests[i].assessmentId))]
        /\ UNCHANGED <<env, fs, settings, loaded, now, ticks, minted, last,
                       bcrypt, stored, checked, calls,
                       users, assessment, mongo_client, mongo_db>>

\* verify_candidate, lines 97-114
verify_candidate(r, clock) ==
    LET e == token_and_candidate(r.doc[1], r.token, r.email, r.name, TRUE,
                                 "Email and name combination not found in candidate list")
    IN IF e.exc # "" THEN e ELSE check_assessment_time_window(r.doc[1], TRUE, clock)

\* get_assessment_schedule, lines 133-148
get_assessment_schedule(r, clock) ==
    LET e == token_and_candidate(r.doc[1], r.token, r.email, r.name, FALSE, "")
    IN IF e.exc # "" THEN e ELSE check_assessment_time_window(r.doc[1], TRUE, clock)

\* get_assessment_questions, lines 167-192
get_assessment_questions(r, clock) ==
    LET e == token_and_candidate(r.doc[1], r.token, r.email, r.name, FALSE, "")
    IN IF e.exc # "" THEN e ELSE check_assessment_time_window(r.doc[1], FALSE, clock)

\* log_candidate_answer, lines 222-236: what it raises before it writes
log_candidate_answer(r, clock) ==
    LET e == token_and_candidate(r.doc[1], r.token, r.email, r.name, TRUE,
                                 "Candidate not found")
    IN IF e.exc # "" THEN e ELSE check_assessment_time_window(r.doc[1], FALSE, clock)

\* submit_candidate_answers, lines 328-376: what it raises before it writes
submit_candidate_answers(r, clock) ==
    LET e == token_and_candidate(r.doc[1], r.token, r.email, r.name, TRUE,
                                 "Candidate not found")
    IN IF e.exc # "" THEN e ELSE submission_window(r.doc[1], clock)

VerifyCandidate ==
    \E i \in Slots :
        /\ requests[i].pc = "found" /\ requests[i].op = "verify-candidate"
        /\ requests' = [requests EXCEPT ![i].pc = "done", ![i].clock = now,
                                        ![i].err = verify_candidate(requests[i], now)]
        /\ UNCHANGED <<env, fs, settings, loaded, now, ticks, minted, last,
                       bcrypt, stored, checked, calls,
                       users, assessment, mongo_client, mongo_db>>

GetSchedule ==
    \E i \in Slots :
        /\ requests[i].pc = "found" /\ requests[i].op = "get-schedule"
        /\ requests' = [requests EXCEPT ![i].pc = "done", ![i].clock = now,
                                        ![i].err = get_assessment_schedule(requests[i], now)]
        /\ UNCHANGED <<env, fs, settings, loaded, now, ticks, minted, last,
                       bcrypt, stored, checked, calls,
                       users, assessment, mongo_client, mongo_db>>

GetQuestions ==
    \E i \in Slots :
        /\ requests[i].pc = "found" /\ requests[i].op = "get-questions"
        /\ requests' = [requests EXCEPT ![i].pc = "done", ![i].clock = now,
                                        ![i].err = get_assessment_questions(requests[i], now)]
        /\ UNCHANGED <<env, fs, settings, loaded, now, ticks, minted, last,
                       bcrypt, stored, checked, calls,
                       users, assessment, mongo_client, mongo_db>>

\* the version and the path of the request's log entry (lines 238-257),
\* from the document the request read
next_version(r) ==
    Len(question_logs(r.doc[1], candidate_key(r.email, r.name), r.questionIndex)) + 1
PathOf(r) == update_path(candidate_key(r.email, r.name), r.questionIndex)

\* log_candidate_answer up to its first update_one (lines 222-271): the
\* $push is done on the collection as it is now
LogAnswerPush ==
    \E i \in Slots :
        /\ requests[i].pc = "found" /\ requests[i].op = "log-answer"
        /\ \E e \in {log_candidate_answer(requests[i], now)} :
              IF e.exc # ""
              THEN /\ requests' = [requests EXCEPT ![i].pc = "done", ![i].clock = now,
                                                   ![i].err = e]
                   /\ UNCHANGED assessment
              ELSE \E u \in {update_one_push(assessment, PathOf(requests[i]),
                                             LogEntry(requests[i].answer, "Subjective", now,
                                                      next_version(requests[i])))} :
                      /\ assessment' = u.docs
                      /\ requests' = [requests EXCEPT
                                         ![i].pc = IF u.matched_count = 0
                                                   THEN "set" ELSE "done",
                                         ![i].clock = now,
                                         ![i].version = next_version(requests[i])]
        /\ UNCHANGED <<env, fs, settings, loaded, now, ticks, minted, last,
                       bcrypt, stored, checked, calls,
                       users, mongo_client, mongo_db>>

\* lines 274-292: nothing matched, the path is set to the one entry
LogAnswerSet ==
    \E i \in Slots :
        /\ requests[i].pc = "set"
        /\ assessment' = update_one_set(assessment, PathOf(requests[i]),
                                        LogEntry(requests[i].answer, "Subjective",
                                                 requests[i].clock,
                                                 requests[i].version)).docs
        /\ requests' = [requests EXCEPT ![i].pc = "done"]
        /\ UNCHANGED <<env, fs, settings, loaded, now, ticks, minted, last,
                       bcrypt, stored, checked, calls,
                       users, mongo_client, mongo_db>>

\* submit_candidate_answers from its find_one on (lines 328-431): the
\* document as read, with the response, replaces the stored one
SubmitAnswers ==
    \E i \in Slots :
        /\ requests[i].pc = "found" /\ requests[i].op = "submit-answers"
        /\ \E e \in {submit_candidate_answers(requests[i], now)} :
              /\ requests' = [requests EXCEPT ![i].pc = "done", ![i].clock = now,
                                              ![i].err = e]
              /\ assessment' =
                    IF e.exc # "" THEN assessment
                    ELSE replace_one(assessment,
                                     with_response(requests[i].doc[1], requests[i].email,
                                                   requests[i].name, Answers, <<>>, now))
        /\ UNCHANGED <<env, fs, settings, loaded, now, ticks, minted, last,
                       bcrypt, stored, checked, calls,
                       users, mongo_client, mongo_db>>

\* the response is sent; the next request can come
Respond ==
    \E i \in Slots :
        /\ requests[i].pc = "done"
        /\ requests' = [requests EXCEPT ![i] = NoRequest]
        /\ UNCHANGED <<env, fs, settings, loaded, now, ticks, minted, last,
                       bcrypt, stored, checked, calls,
                       users, assessment, mongo_client, mongo_db>>

(***************************************************************************)
(* One request at a time against an assessment with a schedule, the clock  *)
(* going through the instants around startTime, endTime and the end of the *)
(* grace period.                                                           *)
(***************************************************************************)
WindowStart == 10
WindowEnd == 20
IstOffset == 19800

\* (startTime, endTime): both in UTC; one without a zone, one at +05:30;
\* none; an end that is no ISO time; a start that is no str; an empty
\* start; an end before the start
Schedules ==
    {<<Time("Z", WindowStart, 0), Time("Z", WindowEnd, 0)>>,
     <<Time("naive", WindowStart, 0), Time("offset", WindowEnd + IstOffset, IstOffset)>>,
     <<NoTime, NoTime>>,
     <<Time("Z", WindowStart, 0), Time("text", 0, 0)>>,
     <<Time("int", WindowStart, 0), Time("Z", WindowEnd, 0)>>,
     <<Time("empty", 0, 0), Time("Z", WindowEnd, 0)>>,
     <<Time("Z", WindowEnd, 0), Time("Z", WindowStart, 0)>>}

\* clock readings, in ticks: half a second before startTime, startTime,
\* endTime, half a second later, the end of the grace period, half a
\* second later
Instants ==
    {WindowStart * TicksPerSecond - 1, WindowStart * TicksPerSecond,
     WindowEnd * TicksPerSecond, WindowEnd * TicksPerSecond + 1,
     (WindowEnd + GracePeriodSeconds) * TicksPerSecond,
     (WindowEnd + GracePeriodSeconds) * TicksPerSecond + 1}

InitWindow ==
    /\ env = Env("HS256", "", "", DefaultLifetimes) /\ fs = GoodFiles
    /\ settings = <<>>
    /\ loaded = <<>>
    /\ now = 0
    /\ ticks = 0
    /\ minted = {}
    /\ last = Idle
    /\ bcrypt = "truncating"
    /\ stored = {}
    /\ checked = NotChecking
    /\ calls = NoCalls
    /\ users = StoredUsers
    /\ \E sch \in Schedules : assessment = <<Assessment(sch[1], sch[2])>>
    /\ requests = <<NoRequest>>
    /\ mongo_client = 0
    /\ mongo_db = 0

\* time passes between two requests
Advance ==
    /\ \A i \in Slots : requests[i].op = "none"
    /\ \E t \in Instants : t > now /\ now' = t
    /\ UNCHANGED <<env, fs, settings, loaded, ticks, minted, last,
                   bcrypt, stored, checked, calls,
                   users, assessment, requests, mongo_client, mongo_db>>

NextWindow ==
    \/ Visit
    \/ Write
    \/ WriteOdd
    \/ FindOne
    \/ VerifyCandidate
    \/ GetSchedule
    \/ GetQuestions
    \/ LogAnswerPush
    \/ LogAnswerSet
    \/ SubmitAnswers
    \/ Respond
    \/ Advance

SpecWindow == InitWindow /\ [][NextWindow]_vars

(***************************************************************************)
(* Requests that write, several at a time, against an assessment without   *)
(* a schedule.  Each slot serves one request, so that the requests that    *)
(* have returned can be counted.                                           *)
(***************************************************************************)
MaxRequests == 2

InitAnswers ==
    /\ env = Env("HS256", "", "", DefaultLifetimes) /\ fs = GoodFiles
    /\ settings = <<>>
    /\ loaded = <<>>
    /\ now = 0
    /\ ticks = 0
    /\ minted = {}
    /\ last = Idle
    /\ bcrypt = "truncating"
    /\ stored = {}
    /\ checked = NotChecking
    /\ calls = NoCalls
    /\ users = StoredUsers
    /\ assessment = <<Assessment(NoTime, NoTime)>>
    /\ requests = [i \in 1..MaxRequests |-> NoRequest]
    /\ mongo_client = 0
    /\ mongo_db = 0

NextAnswers ==
    \/ Write
    \/ FindOne
    \/ LogAnswerPush
    \/ LogAnswerSet
    \/ SubmitAnswers

SpecAnswers == InitAnswers /\ [][NextAnswers]_vars

(***************************************************************************)
(* Properties.  They read `last`, the call that has just returned: its     *)
(* arguments, what it raised and returned, and the steps it went through.  *)
(***************************************************************************)
\* decode_token has returned to its caller
Decoded == last.op = "decode_token"

\* the call went through the signature check, and the check passed
VerifyRan == Len(last.steps) >= 2
VerifyPassed == Len(last.steps) >= 3

IsStr(x, s) == x.t = "str" /\ x.v = s

NoPayload == last.payload.t = "null"

Raised(detail) == last.err.exc = "TokenError" /\ last.err.detail = detail

\* no call of the model leaves the part of json / float this model covers
Modelled == last.decode.exc # "unmodelled" /\ last.err.exc # "unmodelled"

\* the configured lifetime of a token of the given type, in ticks
LifetimeTicks(type) ==
    TicksPerSecond * (IF type = S_access THEN env.JWT_EXP_MINUTES * SecondsPerMinute
                      ELSE env.JWT_REFRESH_EXP_DAYS * SecondsPerDay)

\* the last clock reading at which a minted token is unexpired: the start
\* of the second it was minted in, plus its lifetime
ExpiryOf(m) == Timestamp(m.at) * TicksPerSecond + LifetimeTicks(m.type)

\* the presented token's segments
Segments == SplitDot(last.token)
SigningInput == Segments[1] \o <<DOT>> \o Segments[2]

\* C1: decode_token of a token create_access_token / create_refresh_token
\* returned, called before the token's expiry, returns a payload whose sub,
\* role and type are the ones the token was made from and whose exp is
\* greater than its iat.
C1_RoundTrip ==
    (Decoded /\ last.kind = "minted" /\ last.at <= ExpiryOf(last.src)) =>
        /\ last.err.exc = ""
        /\ last.payload.t = "dict"
        /\ IsStr(DictGet(last.payload, S_sub), last.src.subject)
        /\ IsStr(DictGet(last.payload, S_role), last.src.role)
        /\ IsStr(DictGet(last.payload, S_type), last.src.type)
        /\ DictGet(last.payload, S_iat).t = "int"
        /\ DictGet(last.payload, S_exp).t = "int"
        /\ DictGet(last.payload, S_exp).v > DictGet(last.payload, S_iat).v

\* the presented token differs from the minted one it was made from in one
\* character, and that character is now a dot
TamperedWithDot ==
    \E i \in 1..Len(last.token) :
        last.token[i] # last.src.token[i] /\ last.token[i] = DOT

\* C2 as stated: a minted token with one character of its payload segment
\* changed makes decode_token fail with "Token signature invalid", and no
\* payload is returned.
C2_TamperSignatureInvalid ==
    (Decoded /\ last.kind = "tampered") =>
        Raised("Token signature invalid") /\ NoPayload

\* C2, amended: a minted token with one character of its payload segment
\* changed is never accepted: decode_token fails with "Token signature
\* invalid", or with "Token structure invalid" when the new character is a
\* dot, and no payload is read or returned.
C2_TamperRejected ==
    (Decoded /\ last.kind = "tampered") =>
        /\ NoPayload
        /\ last.payload_data.t = "null"
        /\ IF TamperedWithDot THEN Raised("Token structure invalid")
           ELSE Raised("Token signature invalid")

C2_Witness ==
    /\ Decoded /\ last.kind = "tampered"
    /\ ~TamperedWithDot
    /\ Raised("Token signature invalid")

\* the third segment is the unpadded base64url HMAC-SHA256 of
\* '<segment1>.<segment2>' under the configured secret
HmacMatches == Segments[3] = SignedBy("hmac-configured", SigningInput)

\* C3: under HS256 the signature check of decode_token passes if and only
\* if the third segment is the base64url HMAC-SHA256, under the configured
\* secret, of '<segment1>.<segment2>'.
C3_HmacSignatureCheck ==
    (Decoded /\ env.JWT_ALGORITHM = "HS256" /\ VerifyRan) =>
        (VerifyPassed <=> HmacMatches)

\* a token signed under another secret is rejected by the signature check
C3_Witness ==
    /\ Decoded /\ env.JWT_ALGORITHM = "HS256" /\ VerifyRan
    /\ Segments[3] = SignedBy("hmac-foreign", SigningInput)
    /\ ~VerifyPassed
    /\ Raised("Token signature invalid")

\* the third segment is a signature of '<segment1>.<segment2>' under the
\* configured algorithm and this deployment's secret or key
SignatureValid ==
    IF env.JWT_ALGORITHM = "HS256" THEN HmacMatches
    ELSE /\ env.JWT_ALGORITHM = "RS256"
         /\ Segments[3] = SignedBy("rsa-deployed", SigningInput)

\* C4: a three-segment token whose signature is invalid makes decode_token
\* fail with "Token signature invalid" whatever its payload segment holds,
\* and no payload is read or returned unless the signature check passed.
C4_SignatureBeforePayload ==
    /\ (Decoded /\ env.JWT_ALGORITHM \in {"HS256", "RS256"} /\ VerifyRan
            /\ ~SignatureValid) =>
           Raised("Token signature invalid") /\ NoPayload
    /\ (Decoded /\ ~VerifyPassed) => (NoPayload /\ last.payload_data.t = "null")

\* the exp the parsed payload carries
PayloadExp == DictGet(last.payload_data, S_exp)
ExpiryRan == Len(last.steps) = 4 /\ last.payload_data.t = "dict"

\* C5: a token with a valid signature whose payload carries a numeric exp
\* fails decode_token with "Token expired" when now > exp, and is accepted
\* when now <= exp, now == exp included.
C5_ExpiryStrict ==
    (Decoded /\ ExpiryRan /\ PayloadExp.t = "int") =>
        IF last.at > PayloadExp.v * TicksPerSecond
        THEN Raised("Token expired") /\ NoPayload
        ELSE last.err.exc = "" /\ last.payload.t = "dict"

\* a token decoded at the very second of its exp, and accepted
C5_Witness ==
    /\ Decoded /\ ExpiryRan /\ PayloadExp.t = "int"
    /\ last.at > 0
    /\ last.at = PayloadExp.v * TicksPerSecond
    /\ last.err.exc = ""

\* C6 as stated: an access token minted at time t with lifetime L is
\* accepted by decode_token at every time up to t + L and fails with
\* "Token expired" at every later time.
C6_LifetimeFromMintTime ==
    (Decoded /\ last.kind = "minted" /\ last.src.type = S_access) =>
        IF last.at <= last.src.at + LifetimeTicks(S_access)
        THEN last.err.exc = ""
        ELSE Raised("Token expired")

\* C6, amended: an access token minted at time t with lifetime L carries
\* iat = the whole seconds of t and exp = iat + L; decode_token accepts it
\* at every time up to exp and fails with "Token expired" at every later
\* time, whatever else was minted; tokens minted for one subject and role
\* in different seconds are different tokens.
C6_LifetimeFromMintSecond ==
    /\ (Decoded /\ last.kind = "minted" /\ last.src.type = S_access) =>
           IF last.at <= ExpiryOf(last.src)
           THEN /\ last.err.exc = ""
                /\ last.payload.t = "dict"
                /\ DictGet(last.payload, S_iat) = JInt(Timestamp(last.src.at))
                /\ DictGet(last.payload, S_exp) =
                       JInt(ExpiryOf(last.src) \div TicksPerSecond)
           ELSE Raised("Token expired") /\ NoPayload
    /\ \A m1, m2 \in minted :
           (m1.type = m2.type /\ Timestamp(m1.at) # Timestamp(m2.at)) =>
               m1.token # m2.token

\* of two access tokens minted in different seconds, the older one is
\* rejected as expired at a time the newer one is still good for
C6_Witness ==
    /\ Decoded /\ last.kind = "minted" /\ last.src.type = S_access
    /\ env.JWT_EXP_MINUTES > 0
    /\ Raised("Token expired")
    /\ \E m \in minted : /\ m.type = S_access
                          /\ Timestamp(m.at) # Timestamp(last.src.at)
                          /\ last.at <= ExpiryOf(m)

\* C7: a token string that is not exactly three dot-separated segments
\* makes decode_token fail with "Token structure invalid", and nothing is
\* returned for it.
C7_MalformedToken ==
    (Decoded /\ Len(Segments) # 3) =>
        Raised("Token structure invalid") /\ NoPayload

\* the call stopped at the payload: the segment could not be
\* base64url-decoded, or what it decoded to could not be parsed as JSON
PayloadUnreadable == Len(last.steps) = 3 /\ last.err.exc # ""

\* C8: a three-segment token with a valid signature whose payload segment
\* cannot be base64url-decoded or parsed as JSON makes decode_token fail
\* with the TokenError "Token payload invalid", not with another exception.
C8_InvalidPayload ==
    (Decoded /\ PayloadUnreadable) => Raised("Token payload invalid")

\* C9: whenever the decode_token call inside get_current_user fails,
\* get_current_user raises TokenError (HTTP 401) and no other exception.
C9_UniformFailure ==
    (last.op = "get_current_user" /\ last.decode.exc # "") =>
        last.err.exc = "TokenError" /\ last.err.status = 401

Supported == env.JWT_ALGORITHM \in {"HS256", "RS256"}

\* C10: under an algorithm other than HS256 and RS256, create_access_token
\* and create_refresh_token fail with "Unsupported JWT algorithm: <it>", no token
\* is minted, and decode_token returns no payload for any token.
C10_ClosedAlgorithmSet ==
    ~Supported =>
        /\ minted = {}
        /\ last.op \in {"create_access_token", "create_refresh_token"} =>
               Raised("Unsupported JWT algorithm: " \o env.JWT_ALGORITHM) /\ last.token = <<>>
        /\ last.op \in {"decode_token", "get_current_user"} =>
               last.decode.exc # "" /\ NoPayload

\* a create call that failed for the algorithm
C10_Witness ==
    /\ ~Supported
    /\ last.op = "create_access_token"
    /\ Raised("Unsupported JWT algorithm: " \o env.JWT_ALGORITHM)

\* the errors _get_secret_and_algorithm raises when the RSA key material is
\* missing or cannot be read
KeyLoadDetails ==
    {"RS256 requires RSA key paths to be set in environment variables",
     "Failed to load RSA keys"}

KeyLoadFailure(err) == err.exc = "TokenError" /\ err.detail \in KeyLoadDetails

\* C11: a missing key path or an unreadable key file under RS256 stops the
\* process at start-up; no create_access_token, create_refresh_token,
\* decode_token or get_current_user call of a running process is the one
\* to report it.
C11_KeyLoadFailFast ==
    last.op # "none" => ~KeyLoadFailure(last.err)

\* a create_access_token / create_refresh_token call has returned a token
Minted == last.op \in {"create_access_token", "create_refresh_token"} /\ last.err.exc = ""

\* the payload the returned token carries, read back from its second segment
MintedPayload == parse_payload(Segments[2]).val

\* C13: the payload of every token create_access_token or
\* create_refresh_token returns has exp greater than iat, whatever the
\* configured lifetimes are.
C13_ExpAfterIat ==
    Minted =>
        /\ DictGet(MintedPayload, S_iat).t = "int"
        /\ DictGet(MintedPayload, S_exp).t = "int"
        /\ DictGet(MintedPayload, S_exp).v > DictGet(MintedPayload, S_iat).v

\* C14: decode_token and get_current_user treat a token of type "refresh"
\* as they treat one of type "access": a minted token of either type is
\* accepted up to its expiry and rejected as expired after it, the payload
\* carries the type unchanged, and get_current_user answers by the subject
\* alone.
C14_TypeNotEnforced ==
    (last.op \in {"decode_token", "get_current_user"} /\ last.kind = "minted") =>
        IF last.at <= ExpiryOf(last.src)
        THEN /\ last.decode.exc = ""
             /\ IsStr(DictGet(last.payload, S_type), last.src.type)
             /\ last.op = "get_current_user" =>
                    IF last.src.subject \in Users
                    THEN last.err.exc = "" /\ last.user = last.src.subject
                    ELSE /\ last.err = HTTPException(401, "Invalid user identifier")
                         /\ last.user = <<>>
        ELSE Raised("Token expired") /\ NoPayload

\* get_current_user has returned the stored user for a refresh token
C14_Witness ==
    /\ last.op = "get_current_user" /\ last.kind = "minted"
    /\ last.src.type = S_refresh
    /\ last.err.exc = ""
    /\ last.user = StoredUser

\* two minted tokens made from the same subject, role and type in the same
\* second
SameMinting(m1, m2) ==
    /\ m1.subject = m2.subject /\ m1.role = m2.role /\ m1.type = m2.type
    /\ Timestamp(m1.at) = Timestamp(m2.at)

\* C15: under HS256, create calls with the same subject, role and type
\* made in the same second return the same token string.
C15_HmacDeterministic ==
    env.JWT_ALGORITHM = "HS256" =>
        \A m1, m2 \in minted : SameMinting(m1, m2) => m1.token = m2.token

\* two calls at different clock readings of one second gave one token
C15_Witness ==
    /\ env.JWT_ALGORITHM = "HS256"
    /\ \E m1, m2 \in minted :
          /\ m1.at # m2.at
          /\ SameMinting(m1, m2)
          /\ m1.token = m2.token

\* a character of the URL-safe base64 alphabet; a symbol of a modelled
\* signature stands for one
IsB64UrlChar(c) == IsSymbol(c) \/ (c # 43 /\ c # 47 /\ B64Value(c) < 64)

\* a non-empty text of such characters: no padding, no dot
IsB64UrlText(seg) == Len(seg) > 0 /\ \A i \in 1..Len(seg) : IsB64UrlChar(seg[i])

\* {"alg":"<alg>","typ":"JWT"}: the header with its keys in alphabetical
\* order, as text
HeaderText(alg) ==
    <<123, QUOTE>> \o S_alg \o <<QUOTE, 58, QUOTE>> \o alg \o <<QUOTE, 44, QUOTE>>
        \o S_typ \o <<QUOTE, 58, QUOTE>> \o S_JWT \o <<QUOTE, 125>>

ConfiguredAlg == IF env.JWT_ALGORITHM = "HS256" THEN S_HS256 ELSE S_RS256

\* the segments are three texts of base64url characters, the first the
\* header of the configured algorithm
WireSegments(segments) ==
    /\ Len(segments) = 3
    /\ \A k \in 1..3 : IsB64UrlText(segments[k])
    /\ urlsafe_b64decode(segments[1]) = [exc |-> "", v |-> HeaderText(ConfiguredAlg)]

\* the payload is the one the call built: sub, role, type, iat, exp
WirePayload(payload) ==
    /\ payload.t = "dict"
    /\ [i \in 1..Len(payload.v) |-> payload.v[i].k] = <<S_sub, S_role, S_type, S_iat, S_exp>>
    /\ IsStr(DictGet(payload, S_sub), last.subject)
    /\ IsStr(DictGet(payload, S_role), last.role)
    /\ IsStr(DictGet(payload, S_type),
             IF last.op = "create_access_token" THEN S_access ELSE S_refresh)
    /\ DictGet(payload, S_iat) = JInt(Timestamp(last.at))
    /\ DictGet(payload, S_exp).t = "int"

LaterCall == last.op # "none" /\ loaded # <<>>

\* C12: the signing material is loaded once: every call after the first
\* create_* / decode_token call of the process works with the secret,
\* algorithm and keys the first one loaded, whatever has become of the key
\* files and the environment since.
C12_LoadedOnce ==
    LaterCall => last.material = loaded

\* C16: get_password_hash fails for no password, and verify_password of a
\* password and a hash get_password_hash made is true when the password is
\* the one that was hashed and false when it is another one.
C16_PasswordRoundTrip ==
    /\ checked.op = "get_password_hash" => checked.exc = ""
    /\ (checked.op = "verify_password" /\ checked.of # <<>>) =>
           /\ checked.exc = ""
           /\ checked.result <=> (checked.password = checked.of[1])

\* C17: verify_password of a hash string bcrypt did not make returns False
\* and raises nothing, whatever the password.
C17_MalformedHashIsFalse ==
    (checked.op = "verify_password" /\ checked.hashed \in MalformedHashes) =>
        checked.exc = "" /\ checked.result = FALSE

\* verify_password("a", "not-a-real-hash") has returned False
C17_Witness ==
    /\ checked.op = "verify_password"
    /\ checked.hashed = S_not_a_real_hash
    /\ checked.password = <<97>>
    /\ checked.exc = "" /\ checked.result = FALSE

\* the call c, run alone in a process of this configuration with the clock
\* reading c had, returns what c returned
AloneCreate(c, r) == c.err = r.err /\ c.out = r.token
AloneDecode(c, r) == c.err = r.err /\ c.payload = r.payload
AloneHash(c, r) == c.err.exc = r.exc /\ c.out = r.v
AloneVerify(c, r) == c.err.exc = r.exc /\ c.verdict = r.v

SameAsAlone(c) ==
    IF c.op = "create_access_token"
    THEN AloneCreate(c, create_access_token(c.subject, c.role, Settings(env), fs, c.clock))
    ELSE IF c.op = "create_refresh_token"
    THEN AloneCreate(c, create_refresh_token(c.subject, c.role, Settings(env), fs, c.clock))
    ELSE IF c.op = "decode_token"
    THEN AloneDecode(c, decode_token(c.token, Settings(env), fs, c.clock))
    ELSE IF c.op = "get_password_hash"
    THEN AloneHash(c, get_password_hash(c.password, c.clock, bcrypt))
    ELSE AloneVerify(c, verify_password(c.password, c.hashed, bcrypt))

\* C18: whatever the other threads do while a call of create_access_token,
\* create_refresh_token, decode_token, get_password_hash or verify_password
\* is under way, the call returns what it returns when it runs alone with
\* the same arguments, clock reading and configuration.
C18_SameAsAlone ==
    \A t \in Threads : calls[t].pc = "done" => SameAsAlone(calls[t])

\* a create call has returned its token after the clock moved on under it,
\* while the other thread, which built its Settings in the same race, is in
\* the middle of a call
C18_Witness ==
    \E t \in Threads, u \in Threads :
        /\ t # u
        /\ calls[t].pc = "done"
        /\ calls[t].op = CreateOf(t)
        /\ calls[t].err.exc = ""
        /\ Timestamp(calls[t].clock) # Timestamp(now)
        /\ calls[t].missed /\ calls[u].missed
        /\ calls[u].pc \in {"get_settings", "now", "encode", "decode"}

\* what one Settings() of this process gives, field by field (config.py
\* lines 12-15, 22-23)
SingleInitialization ==
    [jwt_secret |-> env.JWT_SECRET,
     jwt_algorithm |-> env.JWT_ALGORITHM,
     jwt_exp_minutes |-> env.JWT_EXP_MINUTES,
     jwt_refresh_exp_days |-> env.JWT_REFRESH_EXP_DAYS,
     jwt_rsa_private_key_path |-> env.JWT_RSA_PRIVATE_KEY_PATH,
     jwt_rsa_public_key_path |-> env.JWT_RSA_PUBLIC_KEY_PATH]

\* both threads have been through Settings(): their first calls raced
Raced == \A t \in Threads : calls[t].missed

\* C19: when the first calls of several threads race into the
\* initialization, the cache holds what a single initialization gives,
\* every call works with that settings object and with the same signing
\* material, and decode_token in any thread accepts an unexpired token a
\* racing call created.
C19_BenignRace ==
    /\ settings # <<>> => settings = <<SingleInitialization>>
    /\ \A t \in Threads :
          /\ calls[t].st # <<>> => calls[t].st = settings
          /\ \A u \in Threads :
                (calls[t].m # <<>> /\ calls[u].m # <<>>) => calls[t].m = calls[u].m
          /\ (calls[t].pc = "done" /\ calls[t].op = "decode_token"
                 /\ calls[t].clock <= ExpiryOf(calls[t].src)) =>
                calls[t].err.exc = ""

\* both threads raced, and the thread that serves refreshes has had its
\* decode_token accept the access token the other thread created
C19_Witness ==
    /\ Raced
    /\ calls[2].pc = "done"
    /\ calls[2].op = "decode_token"
    /\ calls[2].src.type = S_access
    /\ calls[2].err.exc = ""
    /\ calls[2].payload.t = "dict"

\* the parsed payload names exp and gives it the value null
ExpIsNull ==
    \E i \in 1..Len(last.payload_data.v) : last.payload_data.v[i].k = S_exp

\* C21: decode_token checks the expiry only when the payload carries an
\* exp: a token with a valid signature whose payload has no exp, or an exp
\* of null, is accepted at every clock reading, and "Token expired" is
\* raised only for a payload that carries an exp.
C21_ExpiryOnlyWhenPresent ==
    /\ (Decoded /\ ExpiryRan /\ PayloadExp.t = "null") =>
           last.err.exc = "" /\ last.payload = last.payload_data
    /\ (Decoded /\ Raised("Token expired")) =>
           ExpiryRan /\ PayloadExp.t # "null"

\* a token without exp, accepted an hour after the process started
C21_Witness ==
    /\ Decoded /\ ExpiryRan /\ PayloadExp.t = "null" /\ ~ExpIsNull
    /\ last.at >= 60 * SecondsPerMinute * TicksPerSecond
    /\ last.err.exc = "" /\ last.payload.t = "dict"

\* the presented token has three segments and its header is not the one
\* _encode_jwt writes under the configured algorithm
OtherHeader == Len(Segments) = 3 /\ Segments[1] # HeaderSegment(ConfiguredAlg)

\* the payload segment is one decode_token returns at this clock reading
\* once the signature check has passed
PayloadGood(p, clock) == p.err.exc = "" /\ check_expiry(p.val, clock).exc = ""

\* C27: decode_token verifies with the configured algorithm and key
\* whatever the token's header says: a token whose header names another
\* alg passes the signature check exactly when its third segment is a
\* valid signature under the configured algorithm and key, it is accepted
\* exactly when it passes and its payload is readable and unexpired, and
\* with an empty or forged signature it is never accepted.
C27_AlgorithmFromConfiguration ==
    (Decoded /\ Supported /\ last.material[1].err.exc = "" /\ OtherHeader) =>
        /\ VerifyPassed <=> SignatureValid
        /\ (last.err.exc = "") <=>
               (SignatureValid /\ PayloadGood(parse_payload(Segments[2]), last.at))
        /\ last.err.exc = "" => last.payload.t = "dict"

\* under HS256 a token whose header says "none", signed with the
\* configured secret, has been accepted
C27_Witness ==
    /\ Decoded /\ env.JWT_ALGORITHM = "HS256"
    /\ Len(Segments) = 3 /\ Segments[1] = HeaderSegment(S_none)
    /\ SignatureValid
    /\ last.err.exc = "" /\ last.payload.t = "dict"

\* C30: get_database returns a handle only while a client is open and
\* raises RuntimeError otherwise, before the first connect_to_mongo and
\* after close_mongo_connection alike; _db is set exactly when _client is
\* set; and connect_to_mongo while connected keeps the client there is.
C30_HandleLifecycle ==
    /\ (mongo_db # 0) <=> (mongo_client # 0)
    /\ last.op = "get_database" =>
           IF mongo_client # 0
           THEN last.err.exc = "" /\ last.handle = mongo_client
           ELSE last.err.exc = "RuntimeError" /\ last.handle = 0
    /\ (last.op = "connect_to_mongo" /\ last.client_before # 0) =>
           mongo_client = last.client_before

\* the call decoded its token and the payload's sub is the _id of a stored
\* user
SubStored ==
    /\ last.token # <<>> /\ last.decode.exc = ""
    /\ last.payload.t = "dict"
    /\ DictGet(last.payload, S_sub).t = "str"
    /\ DictGet(last.payload, S_sub).v \in DOMAIN users

\* C26: get_optional_user raises nothing: without a token, with a token
\* decode_token does not accept, with a payload without sub and with a sub
\* no stored user has, it returns None; it returns a user exactly when the
\* token decodes and the user exists.
C26_OptionalUserNeverFails ==
    last.op = "get_optional_user" =>
        /\ last.err.exc = ""
        /\ (last.user # <<>>) <=> SubStored

InstantOf(x) ==
    (IF x.form = "offset" THEN x.local - x.offset ELSE x.local) * TicksPerSecond
Parseable(x) == x.form \in {"Z", "naive", "offset"}

\* a request that has read an assessment with a parseable schedule, has
\* passed the checks of the token and of the candidate, and has read the
\* clock
AtWindow(r) ==
    /\ r.pc \in {"set", "done"}
    /\ r.clock >= 0
    /\ r.doc # <<>>
    /\ Parseable(r.doc[1].schedule.startTime)
    /\ Parseable(r.doc[1].schedule.endTime)
    /\ r.token = r.doc[1].assessmentToken
    /\ OfCandidate(r.op) => candidate_found(r.doc[1].candidates, r.email, r.name)

C25_SubmissionGracePeriod ==
    \A i \in Slots :
        AtWindow(requests[i]) /\ requests[i].op = "submit-answers" =>
            IF /\ requests[i].clock >= InstantOf(requests[i].doc[1].schedule.startTime)
               /\ requests[i].clock <= InstantOf(requests[i].doc[1].schedule.endTime)
                                          + GracePeriodSeconds * TicksPerSecond
            THEN /\ requests[i].err.exc = ""
                 /\ candidate_key(requests[i].email, requests[i].name)
                        \in DOMAIN assessment[1].candidateResponses
                 /\ assessment[1].candidateResponses[
                        candidate_key(requests[i].email, requests[i].name)].submittedAt
                        = requests[i].clock
            ELSE /\ requests[i].err.exc = "HTTPException" /\ requests[i].err.status = 403
                 /\ assessment[1].candidateResponses
                        = requests[i].doc[1].candidateResponses

\* a response stored 120 seconds after endTime
C25_Witness ==
    \E i \in Slots :
        /\ AtWindow(requests[i])
        /\ requests[i].op = "submit-answers"
        /\ requests[i].clock = (WindowEnd + GracePeriodSeconds) * TicksPerSecond
        /\ requests[i].err.exc = ""
        /\ DOMAIN assessment[1].candidateResponses # {}

\* further cases of C24 and C25
C24_BeforeStart ==
    \E i \in Slots :
        /\ AtWindow(requests[i]) /\ requests[i].op = "verify-candidate"
        /\ requests[i].clock < WindowStart * TicksPerSecond
        /\ requests[i].err.exc = ""
C24_AfterEnd ==
    \E i \in Slots :
        /\ AtWindow(requests[i]) /\ requests[i].op = "get-schedule"
        /\ requests[i].clock = WindowEnd * TicksPerSecond + 1
        /\ requests[i].err.status = 403
C24_TooEarly ==
    \E i \in Slots :
        /\ AtWindow(requests[i]) /\ requests[i].op = "get-questions"
        /\ requests[i].clock = WindowStart * TicksPerSecond - 1
        /\ requests[i].err.status = 403
C25_TooLate ==
    \E i \in Slots :
        /\ AtWindow(requests[i]) /\ requests[i].op = "submit-answers"
        /\ requests[i].clock = (WindowEnd + GracePeriodSeconds) * TicksPerSecond + 1
        /\ requests[i].err.status = 403
C25_TooEarly ==
    \E i \in Slots :
        /\ AtWindow(requests[i]) /\ requests[i].op = "submit-answers"
        /\ requests[i].clock = WindowStart * TicksPerSecond - 1
        /\ requests[i].err.status = 403


\* a request that has returned success, and the list MongoDB keeps at the
\* path a log-answer request writes to
Succeeded(r) == r.pc = "done" /\ r.clock >= 0 /\ r.err.exc = ""
StoredList(docs, r) ==
    IF FieldNames(PathOf(r)) \in DOMAIN docs[1].answerLogs
    THEN docs[1].answerLogs[FieldNames(PathOf(r))]
    ELSE <<>>
EntryOf(r) == LogEntry(r.answer, "Subjective", r.clock, r.version)

\* C22: every stored answer list holds the versions 1, 2, ..., n in list
\* order.
C22_SequentialVersions ==
    \A path \in DOMAIN assessment[1].answerLogs :
        \A k \in 1..Len(assessment[1].answerLogs[path]) :
            assessment[1].answerLogs[path][k].version = k

\* C23: when no log-answer request is in progress, every stored answer
\* list holds as many entries as log-answer requests for it have returned
\* success.
C23_NoEntryLost ==
    (\A i \in Slots : requests[i].op = "log-answer" => requests[i].pc = "done")
    => \A i \in Slots :
           requests[i].op = "log-answer" /\ Succeeded(requests[i]) =>
               Len(StoredList(assessment, requests[i]))
                   = Cardinality({j \in Slots :
                                     /\ requests[j].op = "log-answer"
                                     /\ Succeeded(requests[j])
                                     /\ PathOf(requests[j]) = PathOf(requests[i])})

\* C28: after two candidates' submit-answers requests have returned
\* success candidateResponses holds both responses, and after a
\* submit-answers and a log-answer request have returned success the
\* logged entry is stored.
C28_NoLostSubmissions ==
    \A i, j \in Slots :
        /\ ( /\ requests[i].op = "submit-answers" /\ Succeeded(requests[i])
             /\ requests[j].op = "submit-answers" /\ Succeeded(requests[j])
             => /\ candidate_key(requests[i].email, requests[i].name)
                       \in DOMAIN assessment[1].candidateResponses
                /\ candidate_key(requests[j].email, requests[j].name)
                       \in DOMAIN assessment[1].candidateResponses )
        /\ ( /\ requests[i].op = "log-answer" /\ Succeeded(requests[i])
             /\ requests[j].op = "submit-answers" /\ Succeeded(requests[j])
             => \E k \in DOMAIN StoredList(assessment, requests[i]) :
                    StoredList(assessment, requests[i])[k] = EntryOf(requests[i]) )

\* the cases of C22, C23 and C28: one request after the other giving the
\* same version twice; two first requests both setting the list; a
\* response and a logged entry replaced away
C22_OneAfterTheOther ==
    /\ \A i \in Slots : requests[i].op = "log-answer" /\ Succeeded(requests[i])
    /\ requests[1].email = DottedEmail /\ requests[2].email = DottedEmail
    /\ StoredList(<<requests[2].doc[1]>>, requests[1]) = <<EntryOf(requests[1])>>
    /\ requests[1].version = 1 /\ requests[2].version = 1
    /\ Len(StoredList(assessment, requests[1])) = 2
C22_Together ==
    /\ \A i \in Slots : requests[i].op = "log-answer" /\ Succeeded(requests[i])
    /\ requests[1].email = PlainEmail /\ requests[2].email = PlainEmail
    /\ requests[1].version = 1 /\ requests[2].version = 1
    /\ Len(StoredList(assessment, requests[1])) = 2
C22_Counted ==
    /\ \A i \in Slots : requests[i].op = "log-answer" /\ Succeeded(requests[i])
    /\ requests[1].email = PlainEmail /\ requests[2].email = PlainEmail
    /\ requests[1].version = 1 /\ requests[2].version = 2
    /\ Len(StoredList(assessment, requests[1])) = 2
C23_BothSet ==
    /\ \A i \in Slots : requests[i].op = "log-answer" /\ Succeeded(requests[i])
    /\ requests[1].email = PlainEmail /\ requests[2].email = PlainEmail
    /\ Len(StoredList(assessment, requests[1])) = 1
C28_ResponseLost ==
    /\ \A i \in Slots : requests[i].op = "submit-answers" /\ Succeeded(requests[i])
    /\ requests[1].email # requests[2].email
    /\ Cardinality(DOMAIN assessment[1].candidateResponses) = 1
C28_EntryLost ==
    /\ requests[1].op = "log-answer" /\ Succeeded(requests[1])
    /\ requests[2].op = "submit-answers" /\ Succeeded(requests[2])
    /\ StoredList(assessment, requests[1]) = <<>>

====
